---------------------------- MODULE Spec2Model ----------------------------
(***************************************************************************)
(* Model of the client-side media lifecycle and navigation layer of the   *)
(* Electric Heater Room / Orange Terry site:                               *)
(*   src/scripts/events.js          (main, navigation and config modules)  *)
(*   src/scripts/embeds.js          (embed manager and archive renderer)   *)
(*   src/scripts/stream-controls.js (stream tab controller)                *)
(*                                                                         *)
(* The specifications share the definitions of this module:               *)
(*   SpecSort   - the archive sort / year grouping of loadAudioArchives    *)
(*                and loadVideoArchives, over bounded archive arrays;      *)
(*   SpecConfig - the configuration loader (loadConfig and its callers);   *)
(*   SpecVk     - the video player over VK embed URLs;                     *)
(*   SpecShare  - the share / copy chains of the share buttons;            *)
(*   SpecEvents - initialisation up to the events calendar;                *)
(*   SpecEager  - the eager archive renderer and its viewport observer;    *)
(*   Spec, SpecStreams, SpecApi, SpecLink, SpecHighlight, SpecWidget,      *)
(*   SpecFade   - the page after startInitialisation; each follows a part  *)
(*                of its handlers (see their Next).                        *)
(***************************************************************************)
EXTENDS Integers, Sequences, FiniteSets, TLC

(***************************************************************************)
(* Bounds of the model.                                                    *)
(***************************************************************************)
\* longest archive array explored by SpecSort
MaxLen == 3
\* latest created_time explored by SpecSort (in ticks, see TicksPerYear)
MaxTime == 2
\* most configuration fetches in flight / issued that SpecConfig follows
MaxFetches == 2
\* most pending timers of one kind that Spec follows
MaxTimers == 1
\* most pending fade-out timers that SpecFade follows
MaxFadeTimers == 2
\* most times SpecEager follows the items of one year group being created
MaxBatches == 2

(***************************************************************************)
(* Time.  A created_time is either absent or a point in time; points are   *)
(* counted in ticks relative to the epoch (new Date(0)), negative before   *)
(* it.  getFullYear maps a point to its calendar year.                     *)
(***************************************************************************)
TicksPerYear == 2
EpochYear == 1970
\* earliest created_time explored by SpecSort: one year before the epoch
MinTime == 0 - TicksPerYear

Undated == [has |-> FALSE, t |-> 0]
Dated(t) == [has |-> TRUE, t |-> t]

\* new Date(created_time).getFullYear()
FloorDiv(a, b) == IF a >= 0 THEN a \div b ELSE 0 - ((b - 1 - a) \div b)
GetFullYear(t) == EpochYear + FloorDiv(t, TicksPerYear)

\* keys of the year Map: a number, or the string 'Unknown'
UnknownYear == [known |-> FALSE, y |-> 0]
KnownYear(y) == [known |-> TRUE, y |-> y]

\* item.created_time ? new Date(item.created_time).getFullYear() : 'Unknown'
YearOf(item) ==
    IF item.created_time.has THEN KnownYear(GetFullYear(item.created_time.t))
    ELSE UnknownYear

\* a.created_time ? new Date(a.created_time) : new Date(0)
DateOf(item) == IF item.created_time.has THEN item.created_time.t ELSE 0

\* the comparator of the archive sort: dateB - dateA
DateCompare(a, b) == DateOf(b) - DateOf(a)

\* a comparator that puts the earlier year first, to compare against
YearCompareAscending(a, b) ==
    IF ~a.known THEN 1
    ELSE IF ~b.known THEN 0 - 1
    ELSE a.y - b.y

\* the comparator of the year sort
YearCompare(a, b) ==
    IF ~a.known THEN 1
    ELSE IF ~b.known THEN 0 - 1
    ELSE b.y - a.y

(***************************************************************************)
(* Array.prototype.sort is stable: an element is placed after every        *)
(* element that does not compare greater than it.                          *)
(***************************************************************************)
RECURSIVE InsertArchive(_, _)
InsertArchive(sorted, x) ==
    IF sorted = << >> THEN << x >>
    ELSE IF DateCompare(Head(sorted), x) <= 0
         THEN << Head(sorted) >> \o InsertArchive(Tail(sorted), x)
         ELSE << x >> \o sorted

RECURSIVE SortArchives(_)
SortArchives(s) ==
    IF s = << >> THEN << >>
    ELSE InsertArchive(SortArchives(SubSeq(s, 1, Len(s) - 1)), s[Len(s)])

RECURSIVE InsertYear(_, _)
InsertYear(sorted, x) ==
    IF sorted = << >> THEN << x >>
    ELSE IF YearCompare(Head(sorted), x) <= 0
         THEN << Head(sorted) >> \o InsertYear(Tail(sorted), x)
         ELSE << x >> \o sorted

RECURSIVE SortYears(_)
SortYears(s) ==
    IF s = << >> THEN << >>
    ELSE InsertYear(SortYears(SubSeq(s, 1, Len(s) - 1)), s[Len(s)])

(***************************************************************************)
(* The year Map, as the sequence of its entries in insertion order.        *)
(***************************************************************************)
MapHas(map, year) == \E i \in 1..Len(map) : map[i].year = year

MapGet(map, year) ==
    LET i == CHOOSE j \in 1..Len(map) : map[j].year = year IN map[i].items

\* if (!map.has(year)) map.set(year, []); map.get(year).push(item)
MapPush(map, year, item) ==
    IF MapHas(map, year)
    THEN [i \in 1..Len(map) |->
            IF map[i].year = year
            THEN [year |-> year, items |-> Append(map[i].items, item)]
            ELSE map[i]]
    ELSE Append(map, [year |-> year, items |-> << item >>])

RECURSIVE GroupByYear(_)
GroupByYear(sorted) ==
    IF sorted = << >> THEN << >>
    ELSE MapPush(GroupByYear(SubSeq(sorted, 1, Len(sorted) - 1)),
                 YearOf(sorted[Len(sorted)]), sorted[Len(sorted)])

\* Array.from(map.keys())
MapKeys(map) == [i \in 1..Len(map) |-> map[i].year]

\* the year sections in document order
YearSections(map) == SortYears(MapKeys(map))

(***************************************************************************)
(* URLs.  A URL is its part before the query and the list of its query     *)
(* parameters.  The same shape carries the values an iframe's src and      *)
(* data-original-src attributes can have.                                  *)
(***************************************************************************)
Url(base, q) == [base |-> base, q |-> q]
Param(n, v) == [n |-> n, v |-> v]

\* the attribute is absent (getAttribute returns null)
NoAttr == Url("(absent)", << >>)
\* the attribute is the empty string
EmptySrc == Url("", << >>)
AboutBlank == Url("about:blank", << >>)
\* window.location.href
PageUrl == Url("(page)", << >>)

\* !value, for a string or null
Falsy(u) == u \in {NoAttr, EmptySrc}

\* the src IDL attribute reflects a URL: absent reads as '', and a present
\* value is resolved against the document, so that '' reads as the URL of
\* the page (the code compares currentSrc with window.location.href)
SrcGet(attr) ==
    IF attr = NoAttr THEN EmptySrc
    ELSE IF attr = EmptySrc THEN PageUrl
    ELSE attr

KickUrl == Url("https://player.kick.com/flukie", << >>)
\* the iframe the Twitch.Embed SDK creates for channel 'flukie'
TwitchUrl == Url("https://embed.twitch.tv", << Param("channel", "flukie") >>)
\* src.includes('kick.com')
IncludesKick(u) == u.base = KickUrl.base

\* `https://www.mixcloud.com/widget/iframe/?feed=${encodeURIComponent(feedUrl)}`
MixcloudUrl(feedUrl) ==
    Url("https://www.mixcloud.com/widget/iframe/", << Param("feed", feedUrl) >>)

VkBases == {"https://vk.com/video_ext.php", "https://vkvideo.ru/video_ext.php"}

\* embedUrl.includes('lang='): some parameter's name ends in "lang"
LangNames == {"lang", "slang"}
IncludesLang(u) == \E i \in 1..Len(u.q) : u.q[i].n \in LangNames

addVkLanguageParam(embedUrl) ==
    IF Falsy(embedUrl) THEN embedUrl
    ELSE IF embedUrl.base \in VkBases
         THEN IF IncludesLang(embedUrl) THEN embedUrl
              ELSE [embedUrl EXCEPT !.q = Append(@, Param("lang", "en"))]
         ELSE embedUrl

(***************************************************************************)
(* Iframes.  src and orig are the src and data-original-src attributes;    *)
(* pending is the source a timer scheduled for this node will assign       *)
(* (NoAttr when none is scheduled); mix tells a node whose id starts with  *)
(* 'mixcloud-iframe-'; mount records the source the embed was created      *)
(* with, which no code reads; widget tells the node Mixcloud.PlayerWidget  *)
(* was called on, the one its handle in mixcloudWidgets drives.            *)
(***************************************************************************)
Frame(src, orig, mix) ==
    [src |-> src, orig |-> orig, pending |-> NoAttr, mix |-> mix,
     mount |-> src, widget |-> mix]

\* the iframe has a source that loads a player
Live(f) == SrcGet(f.src) \notin {EmptySrc, PageUrl, AboutBlank}

\* createIframeEmbed: the container is cleared and holds the new iframe
createIframeEmbed(embedUrl) == << Frame(embedUrl, embedUrl, FALSE) >>

\* unloadSectionMedia, live-streams: the Kick or Twitch iframe
UnloadLiveFrame(f) ==
    LET cur == SrcGet(f.src) IN
    IF ~Falsy(cur)
    THEN [f EXCEPT !.orig = IF Falsy(f.orig) THEN cur ELSE f.orig,
                   !.src = EmptySrc]
    ELSE f

\* unloadSectionMedia (audio-archives, video-archives) and
\* unloadArchiveItemEmbed: one iframe
UnloadArchiveFrame(f) ==
    LET cur == SrcGet(f.src) IN
    IF ~Falsy(cur) /\ cur # AboutBlank /\ cur # PageUrl
    THEN [f EXCEPT !.orig = IF Falsy(f.orig) THEN cur ELSE f.orig,
                   !.src = AboutBlank]
    ELSE f

\* unloadStream('kick'): the Kick iframe
UnloadStreamKickFrame(f) ==
    LET cur == SrcGet(f.src) IN
    IF ~Falsy(cur)
    THEN [f EXCEPT !.orig = cur, !.src = EmptySrc]
    ELSE f

\* reloadSectionMedia (audio-archives, video-archives): one iframe.  A
\* blanked iframe is replaced by a new node that keeps the attributes and
\* gets its src from a 10 ms timer.
ReloadArchiveFrame(f) ==
    LET cur == SrcGet(f.src) IN
    IF ~Falsy(f.orig)
    THEN IF Falsy(cur) \/ cur = AboutBlank \/ cur = PageUrl
         THEN [src |-> NoAttr, orig |-> f.orig, pending |-> f.orig,
               mix |-> f.mix, mount |-> f.mount, widget |-> FALSE]
         ELSE IF cur # f.orig THEN [f EXCEPT !.src = f.orig] ELSE f
    ELSE f

\* the callback of that 10 ms timer: newIframe.src = originalSrc
AssignPending(f) == [f EXCEPT !.src = f.pending, !.pending = NoAttr]

\* element.querySelector('iframe') acts on the first iframe only
OnFirst(frames, Op(_)) ==
    IF frames = << >> THEN frames
    ELSE << Op(Head(frames)) >> \o Tail(frames)

OnAll(frames, Op(_)) == [i \in 1..Len(frames) |-> Op(frames[i])]

(***************************************************************************)
(* The state.                                                              *)
(***************************************************************************)
VARIABLES
    \* config module
    configData,             \* the cached document, Null when none
    configError,            \* the cached error, NoError when none
    fetches,                \* the loadConfig calls awaiting their fetch
    fetchCount,             \* fetches issued since the last resetConfig
    \* archive renderer
    audioRendered,          \* what #audio-archives-container holds
    sortedAudio,            \* sortedArchives of loadAudioArchives
    globalArchivesByYear,   \* the year Map, << >> while null
    audioYears,             \* the .audio-year-section elements, in order
    observedYears,          \* the year sections loadObserver and
                            \* unloadObserver observe
    videoRendered,          \* what #video-player-container / playlist hold
    sortedVideo,            \* sortedArchives of loadVideoArchives
    videoByYear,            \* archivesByYear of loadVideoArchives
    videoYears,             \* the .video-year-section elements, in order
    \* navigation module
    activeSection,          \* let activeSection
    activeMarked,           \* ids of the elements with class 'active'
    fadeMarked,             \* ids of the elements with class 'fade-out'
    navActive,              \* data-section of the nav buttons marked active
    urlAudio,               \* the 'audio' query parameter, "" when absent
    urlVideo,               \* the 'video' query parameter, "" when absent
    bodyFlag,               \* body has class 'live-streams-active'
    fadeTimers,             \* pending 300 ms fade-out timers, oldest first
    linkTimers,             \* pending deep-link timers, oldest first
    \* stream-controls module
    activeStream,           \* let activeStream
    tabActive,              \* stream tabs with class 'active'
    playerActive,           \* stream players with class 'active'
    \* embeds module and the DOM it manages
    media,
    sdk,                    \* which third-party SDK globals the page has
    share,                  \* the share / copy chain of the last share click
    calendar,               \* #calendar-container and the pending loadEvents
    \* the handler that ran last: its name, arguments, the path it took
    \* and the calls it made
    lastOp

configVars == << configData, configError, fetches, fetchCount >>
archiveVars == << audioRendered, sortedAudio, globalArchivesByYear, audioYears,
                  observedYears, videoRendered, sortedVideo, videoByYear, videoYears >>
navVars == << activeSection, activeMarked, fadeMarked, navActive, urlAudio,
              urlVideo, bodyFlag, fadeTimers, linkTimers >>
streamVars == << activeStream, tabActive, playerActive >>
vars == << configVars, archiveVars, navVars, streamVars, media, sdk, share,
          calendar, lastOp >>

Op(name, arg, animate, path, calls) ==
    [op |-> name, arg |-> arg, animate |-> animate, path |-> path,
     calls |-> calls]
\* a timer callback, a viewport observer callback or a click on an item
Event == Op("event", "", FALSE, "", << >>)

\* a document of data/archives.json
\* rev tells one content of the file from another
Doc(rev, audio, video) == [rev |-> rev, audio |-> audio, video |-> video]
Null == [null |-> TRUE]
NoError == "none"

(***************************************************************************)
(* Archive items.  n is the item's place in the configuration array and    *)
(* stands for the identity of the object; key is "" when the item has no   *)
(* key.                                                                    *)
(***************************************************************************)
Item(n, key, platform, url, embedUrl, created_time) ==
    [n |-> n, key |-> key, platform |-> platform, url |-> url,
     embedUrl |-> embedUrl, created_time |-> created_time]

HearthisUrl == Url("https://app.hearthis.at/embed/1/", << >>)
VkUrl == Url("https://vk.com/video_ext.php",
             << Param("oid", "1"), Param("id", "2") >>)
VkUrlRu == Url("https://vkvideo.ru/video_ext.php",
               << Param("oid", "1"), Param("lang", "ru") >>)

(***************************************************************************)
(* The embeds and the DOM they live in, as one record:                     *)
(*   kick, twitch  the iframes inside #kick-embed and #twitch-embed        *)
(*   twitchEmbed   the module's twitchEmbed is not null                    *)
(*   video         the iframes inside #video-player-container              *)
(*   yearLoaded    the years whose .audio-year-content has loaded = 'true' *)
(*   items         per archive item: whether its element is in the        *)
(*                 document, its embedLoaded flag, the iframes inside its  *)
(*                 .archive-embed and its 'highlighted' class              *)
(*   widgets       the items whose embed id is a key of mixcloudWidgets    *)
(*   staleWidgets  the items of which an earlier embed id is still a key   *)
(*                 of mixcloudWidgets                                      *)
(*   liveTimers    pending 100 ms timers of reloadSectionMedia             *)
(***************************************************************************)
NoItem == [inDom |-> FALSE, embedLoaded |-> FALSE, frames |-> << >>,
           highlighted |-> FALSE]
Placeholder == [inDom |-> TRUE, embedLoaded |-> FALSE, frames |-> << >>,
                highlighted |-> FALSE]

\* the item objects of one year, from the year Map
YearItems(map, year) == IF MapHas(map, year) THEN MapGet(map, year) ELSE << >>
YearItemIds(map, year) ==
    {YearItems(map, year)[i].n : i \in 1..Len(YearItems(map, year))}

\* initTwitchEmbed: the SDK adds its iframe to the container
initTwitchEmbed(m, env) ==
    IF ~env.twitch THEN m
    ELSE [m EXCEPT !.twitch = Append(@, Frame(TwitchUrl, NoAttr, FALSE)),
                   !.twitchEmbed = TRUE]

\* where a call into the Mixcloud SDK throws inside the try block of
\* initMixcloudWidget: nowhere, in Mixcloud.PlayerWidget(iframe), or in
\* widget.ready.then(...), which runs after mixcloudWidgets.set(id, widget)
MixcloudThrows == {"none", "PlayerWidget", "ready"}

\* initMixcloudWidget on a cleared .archive-embed: the iframes it leaves
\* there, whether the id is a key of mixcloudWidgets afterwards, what it
\* returns and whether an error leaves the function
initMixcloudWidget(feedUrl, env) ==
    IF ~env.mixcloud \/ env.mixcloudThrows = "PlayerWidget"
    THEN [frames |-> createIframeEmbed(MixcloudUrl(feedUrl)), handle |-> FALSE,
          returns |-> "null", propagates |-> FALSE]
    ELSE IF env.mixcloudThrows = "ready"
    THEN \* the catch block: the fallback iframe replaces the container's
         \* content, the map keeps the id
         [frames |-> createIframeEmbed(MixcloudUrl(feedUrl)), handle |-> TRUE,
          returns |-> "null", propagates |-> FALSE]
    ELSE [frames |-> << Frame(MixcloudUrl(feedUrl), NoAttr, TRUE) >>,
          handle |-> TRUE, returns |-> "widget", propagates |-> FALSE]

MixcloudFrames(feedUrl, env) == initMixcloudWidget(feedUrl, env).frames

\* a loader without the embedLoaded guard and without clearing the
\* .archive-embed first, to compare against
loadArchiveItemEmbedAgain(m, item, env) ==
    [m EXCEPT
        !.items[item.n].frames =
            @ \o (IF item.platform = "mixcloud" THEN MixcloudFrames(item.url, env)
                  ELSE IF item.platform = "hearthis"
                       THEN createIframeEmbed(item.embedUrl)
                       ELSE << >>),
        !.items[item.n].embedLoaded = TRUE,
        !.widgets = IF item.platform = "mixcloud"
                       /\ initMixcloudWidget(item.url, env).handle
                    THEN @ \cup {item.n} ELSE @]

\* loadArchiveItemEmbed
loadArchiveItemEmbed(m, item, env) ==
    IF m.items[item.n].embedLoaded THEN m
    ELSE [m EXCEPT
            !.items[item.n].frames =
                IF item.platform = "mixcloud" THEN MixcloudFrames(item.url, env)
                ELSE IF item.platform = "hearthis"
                     THEN createIframeEmbed(item.embedUrl)
                     ELSE << >>,
            !.items[item.n].embedLoaded = TRUE,
            !.widgets = IF item.platform = "mixcloud"
                       /\ initMixcloudWidget(item.url, env).handle
                        THEN @ \cup {item.n} ELSE @]

\* the two clean-up blocks of unloadArchiveItemEmbed: widget.pause() and
\* mixcloudWidgets.delete(id) share a try block, so that a pause that throws
\* skips the delete; the handle then stays in the map under the id the
\* .archive-embed is about to lose
ReleaseWidget(m, n, pauseThrows) ==
    IF n \notin m.widgets THEN m
    ELSE IF pauseThrows
    THEN [m EXCEPT !.widgets = @ \ {n}, !.staleWidgets = @ \cup {n}]
    ELSE [m EXCEPT !.widgets = @ \ {n}]

\* unloadArchiveItemEmbed: the widget is released, the iframes are blanked
\* and then removed with the rest of the .archive-embed content;
\* pauseThrows tells whether the widget's pause() throws
unloadArchiveItemEmbed(m, n, pauseThrows) ==
    IF ~m.items[n].embedLoaded THEN m
    ELSE [ReleaseWidget(m, n, pauseThrows) EXCEPT
                   !.items[n].frames = << >>,
                   !.items[n].embedLoaded = FALSE]

RECURSIVE UnloadItems(_, _, _)
UnloadItems(m, ns, throwing) ==
    IF ns = {} THEN m
    ELSE LET n == CHOOSE x \in ns : TRUE
         IN UnloadItems(unloadArchiveItemEmbed(m, n, n \in throwing),
                        ns \ {n}, throwing)

\* unloadYearContent; throwing are the items whose widget's pause() throws
unloadYearContent(m, map, year, throwing) ==
    LET ns == {n \in YearItemIds(map, year) : m.items[n].inDom}
        u == UnloadItems(m, ns, throwing)
    IN [u EXCEPT !.items = [n \in DOMAIN @ |-> IF n \in ns THEN NoItem ELSE @[n]],
                 !.yearLoaded = @ \ {year}]

\* loadYearContent
loadYearContent(m, map, year) ==
    IF map = << >> THEN m
    ELSE IF year \in m.yearLoaded THEN m
    ELSE IF ~MapHas(map, year) THEN m
    ELSE [m EXCEPT !.items = [n \in DOMAIN @ |->
                                IF n \in YearItemIds(map, year)
                                THEN Placeholder ELSE @[n]],
                   !.yearLoaded = @ \cup {year}]

\* loadVideoInPlayer: what #video-player-container holds afterwards
loadVideoInPlayer(m, videoItem) ==
    [m EXCEPT !.video =
        IF videoItem.platform = "vk"
        THEN << Frame(addVkLanguageParam(
                        IF Falsy(videoItem.embedUrl)
                        THEN Url(videoItem.url, << >>)
                        ELSE videoItem.embedUrl), NoAttr, FALSE) >>
        ELSE << >>]

(***************************************************************************)
(* unloadSectionMedia, reloadSectionMedia and unloadStream                 *)
(***************************************************************************)
Sections == {"live-streams", "audio-archives", "video-archives", "events"}
\* an element of the page that has an id and is not a section
OtherElements == {"kick-embed"}
\* an id no element has
UnknownIds == {"missing"}
Ids == Sections \cup OtherElements \cup UnknownIds
\* document.getElementById(id) finds an element
Exists(id) == id \in Sections \cup OtherElements
\* the nav buttons, by their data-section
Buttons == Sections

Call(f, arg) == [f |-> f, arg |-> arg]

unloadSectionMedia(m, sectionId) ==
    IF sectionId = "live-streams"
    THEN [m EXCEPT !.kick = OnFirst(@, UnloadLiveFrame),
                   !.twitch = OnFirst(@, UnloadLiveFrame)]
    ELSE IF sectionId = "audio-archives"
    THEN [m EXCEPT !.items = [n \in DOMAIN @ |->
                    [@[n] EXCEPT !.frames = OnAll(@, UnloadArchiveFrame)]]]
    ELSE IF sectionId = "video-archives"
    THEN [m EXCEPT !.video = OnFirst(@, UnloadArchiveFrame)]
    ELSE m

reloadSectionMedia(m, sectionId) ==
    IF sectionId = "live-streams"
    THEN [m EXCEPT !.liveTimers = @ + 1]
    ELSE IF sectionId = "audio-archives"
    THEN [m EXCEPT !.items = [n \in DOMAIN @ |->
                    [@[n] EXCEPT !.frames = OnAll(@, ReloadArchiveFrame)]]]
    ELSE IF sectionId = "video-archives"
    THEN [m EXCEPT !.video = OnFirst(@, ReloadArchiveFrame)]
    ELSE m

\* the source the 100 ms timer of reloadSectionMedia gives the new Kick iframe
KickReloadSrc(frames) ==
    IF frames = << >> THEN KickUrl
    ELSE LET f == Head(frames)
             cur == SrcGet(f.src)
             originalSrc ==
                IF Falsy(f.orig) /\ ~Falsy(cur) /\ cur # AboutBlank
                   /\ IncludesKick(cur)
                THEN cur ELSE f.orig
         IN IF Falsy(originalSrc) THEN KickUrl ELSE originalSrc

\* the callback of the 100 ms timer of reloadSectionMedia('live-streams')
LiveReload(m, stream, env) ==
    IF stream = "kick"
    THEN [m EXCEPT !.kick = << Frame(KickReloadSrc(m.kick),
                                     KickReloadSrc(m.kick), FALSE) >>]
    ELSE IF stream = "twitch"
    THEN initTwitchEmbed([m EXCEPT !.twitch = << >>, !.twitchEmbed = FALSE], env)
    ELSE m

unloadStream(m, stream) ==
    IF stream = "twitch"
    THEN [m EXCEPT !.twitch = << >>, !.twitchEmbed = FALSE]
    ELSE IF stream = "kick"
    THEN [m EXCEPT !.kick = OnFirst(@, UnloadStreamKickFrame)]
    ELSE m

(***************************************************************************)
(* Highlighting of archive items                                           *)
(***************************************************************************)
\* item ids in document order: year sections in order, items in Map order
RECURSIVE DomOrder(_, _)
DomOrder(map, years) ==
    IF years = << >> THEN << >>
    ELSE [i \in 1..Len(YearItems(map, Head(years))) |->
            YearItems(map, Head(years))[i].n]
         \o DomOrder(map, Tail(years))

\* the item object an element was rendered from, by id
ItemOf(n) ==
    sortedAudio[CHOOSE i \in 1..Len(sortedAudio) : sortedAudio[i].n = n]

\* document.querySelector(`[data-audio-key="${audioKey}"]`): 0 when none
FindByKey(m, order, audioKey) ==
    LET hits == {i \in 1..Len(order) :
                    /\ m.items[order[i]].inDom
                    /\ ItemOf(order[i]).key # ""
                    /\ ItemOf(order[i]).key = audioKey}
    IN IF hits = {} THEN 0
       ELSE order[CHOOSE i \in hits : \A j \in hits : i <= j]

\* document.querySelector('.archive-item.highlighted'): 0 when none
FirstHighlighted(m, order) ==
    LET hits == {i \in 1..Len(order) : m.items[order[i]].highlighted}
    IN IF hits = {} THEN 0
       ELSE order[CHOOSE i \in hits : \A j \in hits : i <= j]

\* a loop that removes nothing, to compare against
KeepHighlights(m) == m

\* querySelectorAll('.archive-item.highlighted').forEach(remove 'highlighted')
ClearHighlights(m) ==
    [m EXCEPT !.items = [n \in DOMAIN @ |-> [@[n] EXCEPT !.highlighted = FALSE]]]

highlightAudioSet(m, order, audioKey) ==
    LET c == ClearHighlights(m)
        n == FindByKey(c, order, audioKey)
    IN IF n = 0 THEN c ELSE [c EXCEPT !.items[n].highlighted = TRUE]

(***************************************************************************)
(* navigation module: switchSection                                        *)
(***************************************************************************)
\* the calls and effects a handler logs
ScrollTop == Call("scrollTo", "top")

\* the same test without its animate conjunct, to compare against
IsAudioArchivesClickAlways(sectionId, animate) ==
    sectionId = "audio-archives" /\ activeSection = sectionId

\* const isAudioArchivesClick = ...
IsAudioArchivesClick(sectionId, animate) ==
    sectionId = "audio-archives" /\ animate /\ activeSection = sectionId

\* the deep-link timers: kind is the delay and the place that set the timer,
\* key the audio key it carries, n the item element it captured (0: none)
\* and attached whether that element is still in the document
LinkTimer(kind, key, n) ==
    [kind |-> kind, key |-> key, n |-> n, attached |-> TRUE]

\* updateActiveButton
updateActiveButton(sectionId) == {b \in Buttons : b = sectionId}

\* a switch that leaves the classes of body as they are, to compare against
BodyFlagKept(sectionId) == bodyFlag

\* document.body.classList add / remove 'live-streams-active'
BodyFlagAfter(sectionId) == sectionId = "live-streams"

\* a switch that never touches the 'video' parameter, to compare against
VideoParamKept(from, video) == video

\* if (activeSection === 'video-archives') url.searchParams.delete('video')
VideoParamAfter(from, video) ==
    IF from # "" /\ from = "video-archives" THEN "" ELSE video

\* a switch that reloads the incoming section and never unloads the
\* outgoing one, to compare against
SwitchMediaNoUnload(m, from, to) == reloadSectionMedia(m, to)

\* the calls into the embeds module of a section switch:
\* if (activeSection) unloadSectionMedia(activeSection), and further down
\* reloadSectionMedia(sectionId)
SwitchMedia(m, from, to) ==
    reloadSectionMedia(IF from # "" THEN unloadSectionMedia(m, from) ELSE m, to)

\* a switch that sets a fade-out timer is followed while fewer than bound
\* of them are pending
FadeRoom(sectionId, animate, bound) ==
    (/\ Exists(sectionId)
     /\ activeSection # ""
     /\ activeSection # sectionId
     /\ animate) => Len(fadeTimers) < bound

switchSection(sectionId, animate) ==
    IF ~Exists(sectionId)
    THEN \* console.warn and return
         /\ lastOp' = Op("switchSection", sectionId, animate, "unknown", << >>)
         /\ UNCHANGED << configVars, archiveVars, navVars, streamVars, media, sdk, share, calendar >>
    ELSE IF IsAudioArchivesClick(sectionId, animate)
    THEN \* already on audio-archives: clear the URL, the highlights, scroll
         /\ urlAudio' = ""
         /\ media' = ClearHighlights(media)
         /\ lastOp' = Op("switchSection", sectionId, animate, "reset",
                         << ScrollTop >>)
         /\ UNCHANGED << activeSection, activeMarked, fadeMarked, navActive,
                         urlVideo, bodyFlag, fadeTimers, linkTimers >>
         /\ UNCHANGED << configVars, archiveVars, streamVars, sdk, share, calendar >>
    ELSE IF activeSection = sectionId
    THEN \* already on this section
         /\ lastOp' = Op("switchSection", sectionId, animate, "same", << >>)
         /\ UNCHANGED << configVars, archiveVars, navVars, streamVars, media, sdk, share, calendar >>
    ELSE LET leaving == activeSection # ""
             fading == leaving /\ animate
             reloaded == SwitchMedia(media, activeSection, sectionId)
             deepLink == sectionId = "audio-archives" /\ ~animate /\ urlAudio # ""
             calls == (IF leaving
                       THEN << Call("unloadSectionMedia", activeSection) >>
                       ELSE << >>)
                      \o << Call("reloadSectionMedia", sectionId),
                            Call("activeSection =", sectionId) >>
                      \o (IF deepLink THEN << >> ELSE << ScrollTop >>)
         IN /\ deepLink => Len(linkTimers) < MaxTimers
            /\ sectionId = "live-streams" => media.liveTimers < MaxTimers
            /\ urlVideo' = VideoParamAfter(activeSection, urlVideo)
            /\ fadeMarked' = IF fading THEN fadeMarked \cup {activeSection}
                             ELSE fadeMarked
            /\ fadeTimers' = IF fading THEN Append(fadeTimers, activeSection)
                             ELSE fadeTimers
            /\ activeMarked' = ((IF leaving /\ ~animate
                                 THEN activeMarked \ {activeSection}
                                 ELSE activeMarked) \cup {sectionId})
            /\ activeSection' = sectionId
            /\ navActive' = updateActiveButton(sectionId)
            /\ bodyFlag' = BodyFlagAfter(sectionId)
            /\ urlAudio' = IF sectionId = "audio-archives" /\ animate
                           THEN "" ELSE urlAudio
            /\ media' = IF sectionId = "audio-archives" /\ animate
                        THEN ClearHighlights(reloaded) ELSE reloaded
            /\ linkTimers' = IF deepLink
                             THEN Append(linkTimers, LinkTimer("nav300", urlAudio, 0))
                             ELSE linkTimers
            /\ lastOp' = Op("switchSection", sectionId, animate,
                            IF deepLink THEN "deep-link" ELSE "switch", calls)
            /\ UNCHANGED << configVars, archiveVars, streamVars, sdk, share, calendar >>

\* the callback of the 300 ms timer of an animated switch:
\* currentSection.classList.remove('active', 'fade-out')
FadeTimerFire ==
    /\ fadeTimers # << >>
    /\ activeMarked' = activeMarked \ {Head(fadeTimers)}
    /\ fadeMarked' = fadeMarked \ {Head(fadeTimers)}
    /\ fadeTimers' = Tail(fadeTimers)
    /\ lastOp' = Event
    /\ UNCHANGED << activeSection, navActive, urlAudio, urlVideo, bodyFlag,
                    linkTimers >>
    /\ UNCHANGED << configVars, archiveVars, streamVars, media, sdk, share, calendar >>

(***************************************************************************)
(* stream-controls module: switchStream                                    *)
(***************************************************************************)
Streams == {"kick", "twitch"}

\* the "Reload Kick stream" step of switchStream
RestoreKickFrame(f) ==
    LET cur == SrcGet(f.src) IN
    IF ~Falsy(f.orig) /\ Falsy(cur) THEN [f EXCEPT !.src = f.orig]
    ELSE IF Falsy(cur) \/ ~IncludesKick(cur) THEN [f EXCEPT !.src = KickUrl]
    ELSE f

\* a step that reinitialises the embed whatever the container holds, to
\* compare against
RestoreTwitchAlways(m, env) == initTwitchEmbed(m, env)

\* the "Reload Twitch stream" step of switchStream
RestoreTwitch(m, env) ==
    IF m.twitch = << >> \/ Falsy(SrcGet(Head(m.twitch).src))
    THEN initTwitchEmbed(m, env)
    ELSE m

\* a test that never finds the stream active, to compare against
AlreadyOnStreamNever(stream) == FALSE

\* if (activeStream === stream) return
AlreadyOnStream(stream) == activeStream = stream

\* a switch that marks the new stream and unmarks nothing, to compare
\* against
MarkActiveOnly(marked, stream) == marked \cup {stream}

\* classList.add('active') on the tab or player of the stream and
\* classList.remove('active') on the other one
MarkActive(marked, stream) ==
    (marked \cup {stream}) \ {CHOOSE x \in Streams : x # stream}

switchStream(stream) ==
    IF stream \notin Streams
    THEN /\ lastOp' = Op("switchStream", stream, FALSE, "invalid", << >>)
         /\ UNCHANGED << configVars, archiveVars, navVars, streamVars, media, sdk, share, calendar >>
    ELSE IF AlreadyOnStream(stream)
    THEN /\ lastOp' = Op("switchStream", stream, FALSE, "same", << >>)
         /\ UNCHANGED << configVars, archiveVars, navVars, streamVars, media, sdk, share, calendar >>
    ELSE LET unloaded == unloadStream(media, activeStream)
         IN /\ tabActive' = MarkActive(tabActive, stream)
            /\ playerActive' = MarkActive(playerActive, stream)
            /\ media' = IF stream = "kick"
                        THEN [unloaded EXCEPT !.kick = OnFirst(@, RestoreKickFrame)]
                        ELSE RestoreTwitch(unloaded, sdk)
            /\ activeStream' = stream
            /\ lastOp' = Op("switchStream", stream, FALSE, "switch",
                            << Call("unloadStream", activeStream) >>)
            /\ UNCHANGED << configVars, archiveVars, navVars, sdk, share, calendar >>

(***************************************************************************)
(* Timers of the embeds module                                             *)
(***************************************************************************)
\* the 100 ms timer of reloadSectionMedia('live-streams')
LiveTimerFire ==
    /\ media.liveTimers > 0
    /\ media' = LiveReload([media EXCEPT !.liveTimers = @ - 1], activeStream, sdk)
    /\ lastOp' = Event
    /\ UNCHANGED << configVars, archiveVars, navVars, streamVars, sdk, share, calendar >>

\* the 10 ms timer of reloadSectionMedia, for an iframe of an archive item
ItemFrameTimerFire(n, i) ==
    /\ n \in DOMAIN media.items
    /\ i \in 1..Len(media.items[n].frames)
    /\ media.items[n].frames[i].pending # NoAttr
    /\ media' = [media EXCEPT !.items[n].frames[i] = AssignPending(@)]
    /\ lastOp' = Event
    /\ UNCHANGED << configVars, archiveVars, navVars, streamVars, sdk, share, calendar >>

\* the 10 ms timer of reloadSectionMedia, for the video player's iframe
VideoFrameTimerFire ==
    /\ media.video # << >>
    /\ Head(media.video).pending # NoAttr
    /\ media' = [media EXCEPT !.video = OnFirst(@, AssignPending)]
    /\ lastOp' = Event
    /\ UNCHANGED << configVars, archiveVars, navVars, streamVars, sdk, share, calendar >>

(***************************************************************************)
(* Viewport observers and clicks of the archive renderer                   *)
(***************************************************************************)
\* a timer that captured an item element of this year now holds a node that
\* is no longer in the document
Detach(timers, ns) ==
    [i \in 1..Len(timers) |->
        IF timers[i].n \in ns THEN [timers[i] EXCEPT !.attached = FALSE]
        ELSE timers[i]]

\* loadObserver callback, entry.isIntersecting
YearLoadObserver(year) ==
    /\ year \in observedYears
    /\ media' = loadYearContent(media, globalArchivesByYear, year)
    /\ lastOp' = Event
    /\ UNCHANGED << configVars, archiveVars, navVars, streamVars, sdk, share, calendar >>

\* unloadObserver callback, !entry.isIntersecting
YearUnloadObserver(year, throwing) ==
    /\ year \in observedYears
    /\ LET order == DomOrder(globalArchivesByYear, audioYears)
           highlightedItem == FirstHighlighted(media, order)
           shouldKeepLoaded ==
                /\ highlightedItem # 0
                /\ highlightedItem \in YearItemIds(globalArchivesByYear, year)
           unload == year \in media.yearLoaded /\ ~shouldKeepLoaded
       IN /\ media' = IF unload
                      THEN unloadYearContent(media, globalArchivesByYear, year,
                                             throwing)
                      ELSE media
          /\ linkTimers' = IF unload
                           THEN Detach(linkTimers,
                                       YearItemIds(globalArchivesByYear, year))
                           ELSE linkTimers
          /\ lastOp' = Op("unloadObserver", year, FALSE,
                          IF unload THEN "unload" ELSE "keep", << >>)
    /\ UNCHANGED << activeSection, activeMarked, fadeMarked, navActive,
                    urlAudio, urlVideo, bodyFlag, fadeTimers >>
    /\ UNCHANGED << configVars, archiveVars, streamVars, sdk, share, calendar >>

\* embedObserver callback of an item, entry.isIntersecting
ItemObserver(n) ==
    /\ n \in DOMAIN media.items
    /\ media.items[n].inDom
    /\ media' = loadArchiveItemEmbed(media, ItemOf(n), sdk)
    /\ lastOp' = Op("loadArchiveItemEmbed", ItemOf(n).key, FALSE,
                    IF media.items[n].embedLoaded THEN "loaded" ELSE "load",
                    << >>)
    /\ UNCHANGED << configVars, archiveVars, navVars, streamVars, sdk, share, calendar >>

\* a click on an archive item: updateAudioSetUrl
ItemClick(n) ==
    /\ n \in DOMAIN media.items
    /\ media.items[n].inDom
    /\ ItemOf(n).key # ""
    /\ IF "audio-archives" \in activeMarked
       THEN /\ urlAudio' = ItemOf(n).key
            /\ media' = highlightAudioSet(media,
                            DomOrder(globalArchivesByYear, audioYears),
                            ItemOf(n).key)
       ELSE UNCHANGED << urlAudio, media >>
    /\ lastOp' = Event
    /\ UNCHANGED << activeSection, activeMarked, fadeMarked, navActive,
                    urlVideo, bodyFlag, fadeTimers, linkTimers >>
    /\ UNCHANGED << configVars, archiveVars, streamVars, sdk, share, calendar >>

\* a click on a playlist item: loadVideoInPlayer
PlaylistClick(i) ==
    /\ videoRendered = "years"
    /\ i \in 1..Len(sortedVideo)
    /\ media' = loadVideoInPlayer(media, sortedVideo[i])
    /\ urlVideo' = IF sortedVideo[i].key # "" /\ "video-archives" \in activeMarked
                   THEN sortedVideo[i].key ELSE urlVideo
    /\ lastOp' = Op("loadVideoInPlayer", sortedVideo[i].key, FALSE, "", << >>)
    /\ UNCHANGED << activeSection, activeMarked, fadeMarked, navActive,
                    urlAudio, bodyFlag, fadeTimers, linkTimers >>
    /\ UNCHANGED << configVars, archiveVars, streamVars, sdk, share, calendar >>

(***************************************************************************)
(* Deep-link timers                                                        *)
(***************************************************************************)
\* timers of one delay fire in the order they were set
MayFire(i) ==
    /\ i \in 1..Len(linkTimers)
    /\ \A j \in 1..(i - 1) : linkTimers[j].kind # linkTimers[i].kind

Remove(seq, i) == SubSeq(seq, 1, i - 1) \o SubSeq(seq, i + 1, Len(seq))

\* the year of the Map whose items include the key: scrollToAudioSet's loop
\* over globalArchivesByYear.entries(); 0 when no entry has it
EntryWithKey(map, audioKey) ==
    LET hits == {i \in 1..Len(map) :
                    \E j \in 1..Len(map[i].items) :
                        /\ map[i].items[j].key # ""
                        /\ map[i].items[j].key = audioKey}
    IN IF hits = {} THEN 0 ELSE CHOOSE i \in hits : \A j \in hits : i <= j

\* a timer callback of the deep-link chains
LinkTimerFire(i) ==
    /\ MayFire(i)
    /\ LET t == linkTimers[i]
           rest == Remove(linkTimers, i)
           order == DomOrder(globalArchivesByYear, audioYears)
           found == IF audioRendered = "years"
                    THEN FindByKey(media, order, t.key) ELSE 0
           entry == EntryWithKey(globalArchivesByYear, t.key)
       IN CASE t.kind = "nav300" ->
                \* switchSection's 300 ms timer: find the item, then wait
                /\ linkTimers' = IF found # 0
                                 THEN Append(rest, LinkTimer("nav500", t.key, found))
                                 ELSE rest
                /\ UNCHANGED media
            [] t.kind = "nav500" ->
                \* item.classList.add('highlighted') on the captured element
                /\ linkTimers' = rest
                /\ media' = IF t.attached
                            THEN [media EXCEPT !.items[t.n].highlighted = TRUE]
                            ELSE media
            [] t.kind = "load500" ->
                \* scrollToAudioSet
                /\ linkTimers' =
                        IF entry # 0
                        THEN Append(rest, LinkTimer("scroll500", t.key, 0))
                        ELSE IF found # 0
                        THEN Append(rest, LinkTimer("scroll300", t.key, 0))
                        ELSE rest
                /\ media' = IF entry # 0
                            THEN loadYearContent(media, globalArchivesByYear,
                                                 globalArchivesByYear[entry].year)
                            ELSE media
            [] OTHER ->
                \* highlightAudioSet after scrollToAudioSet
                /\ linkTimers' = rest
                /\ media' = highlightAudioSet(media, order, t.key)
    /\ lastOp' = Event
    /\ UNCHANGED << activeSection, activeMarked, fadeMarked, navActive,
                    urlAudio, urlVideo, bodyFlag, fadeTimers >>
    /\ UNCHANGED << configVars, archiveVars, streamVars, sdk, share, calendar >>

(***************************************************************************)
(* config module                                                           *)
(***************************************************************************)
\* what a fetch of data/archives.json can come back with: the request fails
\* (net), or a response arrives with its ok flag and a body that is no JSON
\* (json = FALSE) or parses to data; data is an object or not, and its audio
\* and video members are arrays or not
Response(net, ok, json, object, audioIsArray, videoIsArray, doc) ==
    [net |-> net, ok |-> ok, json |-> json, object |-> object,
     audioIsArray |-> audioIsArray, videoIsArray |-> videoIsArray, doc |-> doc]

\* the error loadConfig's try block throws for a response, NoError when none
ResponseError(r) ==
    IF ~r.net THEN "TypeError: Failed to fetch"
    ELSE IF ~r.ok THEN "Failed to load configuration"
    ELSE IF ~r.json THEN "SyntaxError"
    ELSE IF ~r.object THEN "Invalid configuration format: expected an object"
    ELSE IF ~r.audioIsArray
         THEN "Invalid configuration format: audio must be an array"
    ELSE IF ~r.videoIsArray
         THEN "Invalid configuration format: video must be an array"
    ELSE NoError

\* a call of loadConfig, getAudioArchives or getVideoArchives, up to its
\* return, throw or fetch: a cached document is returned, a cached error is
\* rethrown, otherwise a fetch is issued and awaited
loadConfig(caller) ==
    /\ IF configData # Null
       THEN /\ lastOp' = Op(caller, "", FALSE, "cached",
                            << Call("return", configData.rev) >>)
            /\ UNCHANGED << fetches, fetchCount >>
       ELSE IF configError # NoError
       THEN /\ lastOp' = Op(caller, "", FALSE, "rethrow",
                            << Call("throw", configError) >>)
            /\ UNCHANGED << fetches, fetchCount >>
       ELSE /\ fetchCount < MaxFetches
            /\ fetches < MaxFetches
            /\ fetches' = fetches + 1
            /\ fetchCount' = fetchCount + 1
            /\ lastOp' = Op(caller, "", FALSE, "fetch", << Call("fetch", "") >>)
    /\ UNCHANGED << configData, configError >>
    /\ UNCHANGED << archiveVars, navVars, streamVars, media, sdk, share, calendar >>

\* a fetch comes back and the loadConfig call awaiting it runs to its end
FetchResolve(r) ==
    /\ fetches > 0
    /\ fetches' = fetches - 1
    /\ IF ResponseError(r) = NoError
       THEN /\ configData' = r.doc
            /\ UNCHANGED configError
            /\ lastOp' = Op("fetchResolve", "", FALSE, "stored",
                            << Call("return", r.doc.rev) >>)
       ELSE /\ configError' = ResponseError(r)
            /\ UNCHANGED configData
            /\ lastOp' = Op("fetchResolve", "", FALSE, "failed",
                            << Call("throw", ResponseError(r)) >>)
    /\ UNCHANGED fetchCount
    /\ UNCHANGED << archiveVars, navVars, streamVars, media, sdk, share, calendar >>

resetConfig ==
    /\ configData' = Null
    /\ configError' = NoError
    /\ fetchCount' = 0
    /\ lastOp' = Op("resetConfig", "", FALSE, "", << >>)
    /\ UNCHANGED fetches
    /\ UNCHANGED << archiveVars, navVars, streamVars, media, sdk, share, calendar >>

(***************************************************************************)
(* loadArchives of the main module: loadAudioArchives, loadVideoArchives   *)
(***************************************************************************)
\* a test that never finds the array empty, to compare against
NoArchivesNever(audioArchives) == FALSE

\* if (audioArchives.length === 0)
NoArchives(audioArchives) == Len(audioArchives) = 0

\* a renderer that leaves every year group to the observers, to compare
\* against
AudioRenderLazy(m, audioArchives) ==
    [m EXCEPT !.items = [n \in 1..Len(audioArchives) |-> NoItem],
              !.yearLoaded = {}]

\* the embeds after loadAudioArchives: nothing of the old container is kept
\* and the first year is loaded at once
AudioRender(m, audioArchives) ==
    LET map == GroupByYear(SortArchives(audioArchives))
        cleared == [m EXCEPT !.items = [n \in 1..Len(audioArchives) |-> NoItem],
                             !.yearLoaded = {}]
    IN IF NoArchives(audioArchives) THEN cleared
       ELSE IF Len(YearSections(map)) > 0
       THEN loadYearContent(cleared, map, YearSections(map)[1])
       ELSE cleared

\* the video loadVideoArchives puts in the player
FirstVideo(sorted, videoKey) ==
    LET hits == {i \in 1..Len(sorted) : sorted[i].key = videoKey}
    IN IF videoKey # "" /\ hits # {}
       THEN sorted[CHOOSE i \in hits : \A j \in hits : i <= j]
       ELSE sorted[1]

VideoRender(m, videoArchives, videoKey) ==
    IF Len(videoArchives) = 0 THEN [m EXCEPT !.video = << >>]
    ELSE loadVideoInPlayer(m, FirstVideo(SortArchives(videoArchives), videoKey))

(***************************************************************************)
(* events module.  calendar records #calendar-container:                   *)
(*   content  "initial" (what the page came with), "loading", "no-events", *)
(*            "grid" or "error"                                            *)
(*   days     the day cards of the grid, one per date                      *)
(*   cards    the event cards of the grid                                  *)
(*   pending  loadAndDisplayEvents calls awaiting loadEvents               *)
(***************************************************************************)
NoCalendar == [content |-> "initial", days |-> 0, cards |-> 0, pending |-> 0]

\* an event of data/events.json: its time is a string, absent, or a value
\* that is no string
CalendarEvent(date, time) == [date |-> date, time |-> time]

\* what the fetch of data/events.json can come back with: the request fails
\* (net), or a response arrives with its ok flag and a body that is no JSON
\* (json = FALSE) or parses to data whose events member is an array or not
EventsResponse(net, ok, json, isArray, events) ==
    [net |-> net, ok |-> ok, json |-> json, isArray |-> isArray,
     events |-> events]

\* the error loadEvents catches, "none" when it catches none
EventsFailure(r) ==
    IF ~r.net THEN "TypeError: Failed to fetch"
    ELSE IF ~r.ok THEN "Failed to load events"
    ELSE IF ~r.json THEN "SyntaxError"
    ELSE IF ~r.isArray THEN "Invalid events format: expected an array"
    ELSE "none"

\* loadEvents: the array it resolves with
loadEvents(r) == IF EventsFailure(r) # "none" THEN << >> ELSE r.events

\* generateGoogleCalendarUrl calls timeStr.split(':'), which throws when
\* event.time is truthy and no string
RenderThrows(events) ==
    \E i \in 1..Len(events) : events[i].time = "(number)"

\* renderCalendar inside the try block of loadAndDisplayEvents
renderCalendar(c, events) ==
    IF Len(events) = 0
    THEN [c EXCEPT !.content = "no-events", !.days = 0, !.cards = 0]
    ELSE IF RenderThrows(events)
    THEN \* the catch block of loadAndDisplayEvents replaces the content
         [c EXCEPT !.content = "error", !.days = 0, !.cards = 0]
    ELSE [c EXCEPT !.content = "grid",
                   !.days = Cardinality({events[i].date : i \in 1..Len(events)}),
                   !.cards = Len(events)]

\* loadAndDisplayEvents up to its await
loadAndDisplayEvents(c) ==
    [c EXCEPT !.content = "loading", !.days = 0, !.cards = 0,
              !.pending = @ + 1]

\* loadAndDisplayEvents from the moment loadEvents resolves
EventsResolve(r) ==
    /\ calendar.pending > 0
    /\ calendar' = renderCalendar([calendar EXCEPT !.pending = @ - 1],
                                  loadEvents(r))
    /\ lastOp' = Op("loadAndDisplayEvents", "", FALSE, EventsFailure(r), << >>)
    /\ UNCHANGED << configVars, archiveVars, navVars, streamVars, media, sdk,
                    share >>

\* loadArchives from the moment its fetch comes back: loadConfig stores the
\* document or the error, and on a document both renderers run
loadArchives(r) ==
    /\ fetches > 0
    /\ audioRendered = "loading"
    /\ fetches' = fetches - 1
    /\ UNCHANGED fetchCount
    /\ ResponseError(r) = NoError
    /\ configData' = r.doc
    /\ UNCHANGED configError
    /\ LET audioArchives == r.doc.audio
           videoArchives == r.doc.video
           deepLink == ~NoArchives(audioArchives) /\ urlAudio # ""
           first == FirstVideo(SortArchives(videoArchives), urlVideo)
       IN /\ deepLink => Len(linkTimers) < MaxTimers
          /\ IF NoArchives(audioArchives)
             THEN /\ audioRendered' = "no-items"
                  /\ audioYears' = << >>
                  /\ UNCHANGED << sortedAudio, globalArchivesByYear,
                                  observedYears >>
             ELSE /\ audioRendered' = "years"
                  /\ sortedAudio' = SortArchives(audioArchives)
                  /\ globalArchivesByYear' = GroupByYear(SortArchives(audioArchives))
                  /\ audioYears' =
                        YearSections(GroupByYear(SortArchives(audioArchives)))
                  /\ observedYears' =
                        {YearSections(GroupByYear(SortArchives(audioArchives)))[i] :
                            i \in 1..Len(GroupByYear(SortArchives(audioArchives)))}
          /\ linkTimers' = IF deepLink
                           THEN Append(linkTimers, LinkTimer("load500", urlAudio, 0))
                           ELSE linkTimers
          /\ IF Len(videoArchives) = 0
             THEN /\ videoRendered' = "no-items"
                  /\ UNCHANGED << sortedVideo, videoByYear, videoYears, urlVideo >>
             ELSE /\ videoRendered' = "years"
                  /\ sortedVideo' = SortArchives(videoArchives)
                  /\ videoByYear' = GroupByYear(SortArchives(videoArchives))
                  /\ videoYears' =
                        YearSections(GroupByYear(SortArchives(videoArchives)))
                  /\ urlVideo' = IF first.key # ""
                                    /\ "video-archives" \in activeMarked
                                 THEN first.key ELSE urlVideo
          /\ media' = VideoRender(AudioRender(media, audioArchives),
                                  videoArchives, urlVideo)
    /\ calendar' = loadAndDisplayEvents(calendar)
    /\ lastOp' = Op("loadArchives", "", FALSE, "rendered", << >>)
    /\ UNCHANGED << activeSection, activeMarked, fadeMarked, navActive,
                    urlAudio, bodyFlag, fadeTimers >>
    /\ UNCHANGED << streamVars, sdk, share >>

\* loadArchives when loadConfig throws: the catch block writes the error
\* messages into the containers
loadArchivesError(r) ==
    /\ fetches > 0
    /\ audioRendered = "loading"
    /\ fetches' = fetches - 1
    /\ UNCHANGED fetchCount
    /\ ResponseError(r) # NoError
    /\ configError' = ResponseError(r)
    /\ UNCHANGED configData
    /\ audioRendered' = "error"
    /\ videoRendered' = "error"
    /\ lastOp' = Op("loadArchives", "", FALSE, "error", << >>)
    /\ UNCHANGED << sortedAudio, globalArchivesByYear, audioYears,
                    observedYears, sortedVideo, videoByYear, videoYears >>
    /\ UNCHANGED << navVars, streamVars, media, sdk, share, calendar >>

(***************************************************************************)
(* Direct calls of the functions the embeds module exports                 *)
(***************************************************************************)
CallUnloadSectionMedia(sectionId) ==
    /\ media' = unloadSectionMedia(media, sectionId)
    /\ lastOp' = Op("unloadSectionMedia", sectionId, FALSE, "", << >>)
    /\ UNCHANGED << configVars, archiveVars, navVars, streamVars, sdk, share, calendar >>

CallReloadSectionMedia(sectionId) ==
    /\ sectionId = "live-streams" => media.liveTimers < MaxTimers
    /\ media' = reloadSectionMedia(media, sectionId)
    /\ lastOp' = Op("reloadSectionMedia", sectionId, FALSE, "", << >>)
    /\ UNCHANGED << configVars, archiveVars, navVars, streamVars, sdk, share, calendar >>

CallUnloadStream(stream) ==
    /\ media' = unloadStream(media, stream)
    /\ lastOp' = Op("unloadStream", stream, FALSE, "", << >>)
    /\ UNCHANGED << configVars, archiveVars, navVars, streamVars, sdk, share, calendar >>

\* unloadArchiveItemEmbed(itemElement, item) on an item of the document
CallUnloadArchiveItemEmbed(n, pauseThrows) ==
    /\ n \in DOMAIN media.items
    /\ media.items[n].inDom
    /\ media' = unloadArchiveItemEmbed(media, n, pauseThrows)
    /\ lastOp' = Op("unloadArchiveItemEmbed", ItemOf(n).key, FALSE, "", << >>)
    /\ UNCHANGED << configVars, archiveVars, navVars, streamVars, sdk, share, calendar >>

(***************************************************************************)
(* Sharing: shareAudioSet and shareVideo of the embeds module, shareStream *)
(* of the stream-controls module, each with its own copyToClipboard and    *)
(* fallbackCopyToClipboard.  share records one share click:                *)
(*   fn         the function the click called, "none" before the first     *)
(*   env        whether navigator.share and navigator.clipboard.writeText  *)
(*              exist                                                      *)
(*   pc         the promise the chain awaits, "idle" before the first      *)
(*              click and "done" when nothing is awaited                   *)
(*   log        the stages attempted, in order, each with its result       *)
(*   confirmed  showShareConfirmation was called                           *)
(*   visible    #share-confirmation has the class 'show'                   *)
(*   hideTimers pending 2 s timers of showShareConfirmation                *)
(***************************************************************************)
ShareFns == {"shareAudioSet", "shareVideo", "shareStream"}
ShareEnvs == [share : BOOLEAN, clipboard : BOOLEAN]
\* how navigator.share settles: it resolves, the user dismisses the sheet
\* (AbortError), or it rejects with another error
ShareOutcomes == {"resolve", "abort", "error"}
\* document.execCommand('copy') returns true, returns false or throws
ExecOutcomes == {"true", "false", "throws"}
\* prompt() returns the text, returns '' (the field emptied, then OK) or
\* returns null (cancelled)
PromptAnswers == {"text", "empty", "cancel"}

NoShare ==
    [fn |-> "none", env |-> [share |-> FALSE, clipboard |-> FALSE],
     pc |-> "idle", log |-> << >>, confirmed |-> FALSE, visible |-> FALSE,
     hideTimers |-> 0]

\* a stage of the chain is entered
Attempt(s, stage) ==
    [s EXCEPT !.log = Append(@, [stage |-> stage, result |-> "pending"])]
\* the stage entered last ends
Settle(s, result) == [s EXCEPT !.log[Len(s.log)].result = result]

showShareConfirmation(s) ==
    [s EXCEPT !.confirmed = TRUE, !.visible = TRUE, !.hideTimers = @ + 1]

\* const userCopied = prompt(...); if (userCopied) showShareConfirmation()
PromptEmbeds(s, answer) ==
    LET p == Settle(Attempt(s, "prompt"),
                    IF answer = "cancel" THEN "cancel" ELSE "ok")
    IN [(IF answer = "text" THEN showShareConfirmation(p) ELSE p)
            EXCEPT !.pc = "done"]

\* const userCopied = prompt(...); if (userCopied !== null) ...
PromptStream(s, answer) ==
    LET p == Settle(Attempt(s, "prompt"),
                    IF answer = "cancel" THEN "cancel" ELSE "ok")
    IN [(IF answer # "cancel" THEN showShareConfirmation(p) ELSE p)
            EXCEPT !.pc = "done"]

\* fallbackCopyToClipboard of the embeds module
FallbackCopyEmbeds(s, exec, answer) ==
    LET t == Attempt(s, "textarea") IN
    IF exec = "true"
    THEN [showShareConfirmation(Settle(t, "ok")) EXCEPT !.pc = "done"]
    ELSE PromptEmbeds(Settle(t, "fail"), answer)

\* fallbackCopyToClipboard of the stream-controls module: when the copy
\* command fails the Clipboard API is tried once more before the prompt
FallbackCopyStream(s, exec, answer) ==
    LET t == Attempt(s, "textarea") IN
    IF exec = "true"
    THEN [showShareConfirmation(Settle(t, "ok")) EXCEPT !.pc = "done"]
    ELSE IF s.env.clipboard
    THEN [Attempt(Settle(t, "fail"), "clipboard") EXCEPT !.pc = "clipboard-retry"]
    ELSE PromptStream(Settle(t, "fail"), answer)

fallbackCopyToClipboard(s, exec, answer) ==
    IF s.fn = "shareStream" THEN FallbackCopyStream(s, exec, answer)
    ELSE FallbackCopyEmbeds(s, exec, answer)

copyToClipboard(s, exec, answer) ==
    IF s.env.clipboard
    THEN [Attempt(s, "clipboard") EXCEPT !.pc = "clipboard"]
    ELSE fallbackCopyToClipboard(s, exec, answer)

\* a click on a share button: shareAudioSet, shareVideo or shareStream up to
\* its return
ShareClick(fn, env, exec, answer) ==
    /\ share.pc \in {"idle", "done"}
    /\ share.hideTimers < MaxTimers
    /\ LET s == [NoShare EXCEPT !.fn = fn, !.env = env,
                                !.visible = share.visible,
                                !.hideTimers = share.hideTimers]
       IN share' = IF env.share
                   THEN [Attempt(s, "share") EXCEPT !.pc = "share"]
                   ELSE copyToClipboard(s, exec, answer)
    /\ lastOp' = Op(fn, "", FALSE, "", << >>)
    /\ UNCHANGED << configVars, archiveVars, navVars, streamVars, media, sdk, calendar >>

\* the promise of navigator.share settles; only a rejection runs code
ShareSettles(outcome, exec, answer) ==
    /\ share.pc = "share"
    /\ share' = IF outcome = "resolve"
                THEN [Settle(share, "ok") EXCEPT !.pc = "done"]
                ELSE IF outcome = "abort"
                THEN [Settle(share, "abort") EXCEPT !.pc = "done"]
                ELSE copyToClipboard(Settle(share, "fail"), exec, answer)
    /\ lastOp' = Op("navigator.share", outcome, FALSE, "", << >>)
    /\ UNCHANGED << configVars, archiveVars, navVars, streamVars, media, sdk, calendar >>

\* the promise of navigator.clipboard.writeText of copyToClipboard settles
ClipboardSettles(resolved, exec, answer) ==
    /\ share.pc = "clipboard"
    /\ share' = IF resolved
                THEN [showShareConfirmation(Settle(share, "ok")) EXCEPT !.pc = "done"]
                ELSE fallbackCopyToClipboard(Settle(share, "fail"), exec, answer)
    /\ lastOp' = Op("navigator.clipboard.writeText",
                    IF resolved THEN "resolve" ELSE "reject", FALSE, "", << >>)
    /\ UNCHANGED << configVars, archiveVars, navVars, streamVars, media, sdk, calendar >>

\* the promise of the second writeText, in fallbackCopyToClipboard of the
\* stream-controls module, settles
ClipboardRetrySettles(resolved, answer) ==
    /\ share.pc = "clipboard-retry"
    /\ share' = IF resolved
                THEN [showShareConfirmation(Settle(share, "ok")) EXCEPT !.pc = "done"]
                ELSE PromptStream(Settle(share, "fail"), answer)
    /\ lastOp' = Op("navigator.clipboard.writeText",
                    IF resolved THEN "resolve" ELSE "reject", FALSE, "", << >>)
    /\ UNCHANGED << configVars, archiveVars, navVars, streamVars, media, sdk, calendar >>

\* the 2 s timer of showShareConfirmation: classList.remove('show')
HideTimerFire ==
    /\ share.hideTimers > 0
    /\ share' = [share EXCEPT !.visible = FALSE, !.hideTimers = @ - 1]
    /\ lastOp' = Event
    /\ UNCHANGED << configVars, archiveVars, navVars, streamVars, media, sdk, calendar >>

(***************************************************************************)
(* The documents and responses the specifications use                      *)
(***************************************************************************)
OkResponse(doc) == Response(TRUE, TRUE, TRUE, TRUE, TRUE, TRUE, doc)
\* the server answers 404
NotFound(doc) == Response(TRUE, FALSE, TRUE, TRUE, TRUE, TRUE, doc)
\* every response whose data, where it is a document, is one of docs
Responses(docs) ==
    {Response(net, ok, json, object, a, v, doc) :
        net \in BOOLEAN, ok \in BOOLEAN, json \in BOOLEAN, object \in BOOLEAN,
        a \in BOOLEAN, v \in BOOLEAN, doc \in docs}

\* a Mixcloud set and a hearthis.at set of the same year
AudioConfig ==
    << Item(1, "a1", "mixcloud", "https://www.mixcloud.com/FlukieL/a1/",
            NoAttr, Dated(MaxTime)),
       Item(2, "a2", "hearthis", "", HearthisUrl, Dated(MaxTime)) >>
\* two VK videos, one embed URL without and one with a language parameter
VideoConfig ==
    << Item(1, "v1", "vk", "", VkUrl, Dated(MaxTime)),
       Item(2, "v2", "vk", "", VkUrlRu, Dated(0)) >>
MainDoc == Doc("main", AudioConfig, VideoConfig)
MainResponses == {OkResponse(MainDoc), NotFound(MainDoc)}

\* the contents data/archives.json has at two moments
OldDoc == Doc("old", << >>, << >>)
ConfigDocs == {OldDoc, MainDoc}

\* the archive arrays of SpecSort: every array of at most MaxLen items whose
\* created_time is absent or a tick of MinTime..MaxTime
SortTimes == {Undated} \cup {Dated(t) : t \in MinTime..MaxTime}
SortItem(n, created_time) ==
    Item(n, "", "hearthis", "", HearthisUrl, created_time)
SortArrays ==
    UNION {{[n \in 1..len |-> SortItem(n, ts[n])] :
                ts \in [1..len -> SortTimes]} : len \in 0..MaxLen}
SortResponses == {OkResponse(Doc("sort", a, a)) : a \in SortArrays}

\* the archives of SpecLink and SpecHighlight: a Mixcloud set of the latest
\* year, and a hearthis.at set and a set of a platform the renderer does not
\* know of the year before; no videos
LinkConfig ==
    << Item(1, "a1", "mixcloud", "https://www.mixcloud.com/FlukieL/a1/",
            NoAttr, Dated(MaxTime)),
       Item(2, "a2", "hearthis", "", HearthisUrl, Dated(0)),
       Item(3, "", "soundcloud", "", NoAttr, Dated(0)) >>
LinkResponses == {OkResponse(Doc("link", LinkConfig, << >>))}
\* the values of ?audio= the page is opened with
LinkKeys == {"a1", "a2"}

\* the embed URLs of SpecVk: a VK host or another host, with no query, with
\* a query without a language, with lang=ru, and with a parameter whose
\* name ends in 'lang'
VkQueries ==
    {<< >>,
     << Param("oid", "1") >>,
     << Param("oid", "1"), Param("lang", "ru") >>,
     << Param("oid", "1"), Param("slang", "ru") >>}
VkInputs ==
    {Url(b, q) : b \in VkBases \cup {"https://example.com/embed"},
                 q \in VkQueries}
VkKeys == << "v1", "v2" >>
VkItem(n, embedUrl) == Item(n, VkKeys[n], "vk", "", embedUrl, Dated(MaxTime))
VkArrays ==
    UNION {{[n \in 1..len |-> VkItem(n, us[n])] : us \in [1..len -> VkInputs]} :
                len \in 1..Len(VkKeys)}
VkResponses == {OkResponse(Doc("vk", << >>, v)) : v \in VkArrays}

(***************************************************************************)
(* The eager archive renderer: the second loadAudioArchives of the embeds  *)
(* module.  media.eager records what it builds:                            *)
(*   byYear    archivesByYear, the Map of its closure                      *)
(*   years     the year sections in document order                         *)
(*   loaded    the year sections whose data-loaded is 'true'               *)
(*   timers    per year section, the pending createAudioArchiveItem timers *)
(*   elements  per year section, the item elements its content holds       *)
(***************************************************************************)
NoEager ==
    [byYear |-> << >>, years |-> << >>, loaded |-> {}, timers |-> << >>,
     elements |-> << >>]

\* items.forEach((item, index) => setTimeout(createAudioArchiveItem, ...)),
\* dataset.loaded = 'true', for the year section i
EagerCreate(e, i) ==
    [e EXCEPT !.timers[i] = @ + Len(MapGet(e.byYear, e.years[i])),
              !.loaded = @ \cup {e.years[i]}]

\* the renderer up to its return: the year sections, and the first year
\* loaded immediately
EagerRender(audioArchives) ==
    IF Len(audioArchives) = 0 THEN NoEager
    ELSE LET byYear == GroupByYear(SortArchives(audioArchives))
             years == YearSections(byYear)
         IN EagerCreate([byYear |-> byYear, years |-> years, loaded |-> {},
                         timers |-> [i \in 1..Len(years) |-> 0],
                         elements |-> [i \in 1..Len(years) |-> 0]], 1)

\* the observer's test:
\* !loaded && archivesByYear.has(parseInt(year)) || year === 'Unknown'
\* parseInt of a year is the number that is the Map's key; parseInt of
\* 'Unknown' is NaN, which is no key
EagerShouldLoad(e, i) ==
    \/ /\ e.years[i] \notin e.loaded
       /\ e.years[i].known
       /\ MapHas(e.byYear, e.years[i])
    \/ ~e.years[i].known

\* the eager loadAudioArchives is called with the audio array
EagerLoadAudioArchives(audioArchives) ==
    /\ lastOp.op = "startInitialisation"
    /\ media' = [media EXCEPT !.eager = EagerRender(audioArchives)]
    /\ lastOp' = Op("loadAudioArchives", "", FALSE, "eager", << >>)
    /\ UNCHANGED << configVars, archiveVars, navVars, streamVars, sdk, share,
                    calendar >>

\* the IntersectionObserver callback for a year section that enters the
\* viewport
EagerObserver(i) ==
    /\ i \in 1..Len(media.eager.years)
    /\ EagerShouldLoad(media.eager, i) =>
            media.eager.timers[i] + media.eager.elements[i]
                < MaxBatches * Len(MapGet(media.eager.byYear, media.eager.years[i]))
    /\ media' = IF EagerShouldLoad(media.eager, i)
                THEN [media EXCEPT !.eager = EagerCreate(@, i)]
                ELSE media
    /\ lastOp' = Op("observer", "", FALSE,
                    IF EagerShouldLoad(media.eager, i) THEN "load" ELSE "loaded",
                    << >>)
    /\ UNCHANGED << configVars, archiveVars, navVars, streamVars, sdk, share,
                    calendar >>

\* one of the timers fires: createAudioArchiveItem(item, yearContent)
EagerItemTimerFire(i) ==
    /\ i \in 1..Len(media.eager.years)
    /\ media.eager.timers[i] > 0
    /\ media' = [media EXCEPT !.eager.timers[i] = @ - 1,
                              !.eager.elements[i] = @ + 1]
    /\ lastOp' = Event
    /\ UNCHANGED << configVars, archiveVars, navVars, streamVars, sdk, share,
                    calendar >>

(***************************************************************************)
(* Initial states: the page after the synchronous part of                  *)
(* startInitialisation, with loadArchives awaiting its fetch.              *)
(***************************************************************************)
\* initLiveStreams: the Kick iframe and the Twitch embed
InitialMedia(env) ==
    initTwitchEmbed([kick |-> createIframeEmbed(KickUrl), twitch |-> << >>,
                     twitchEmbed |-> FALSE, video |-> << >>,
                     yearLoaded |-> {}, items |-> << >>, widgets |-> {},
                     staleWidgets |-> {}, eager |-> NoEager,
                     liveTimers |-> 0], env)

InitConfig ==
    /\ configData = Null
    /\ configError = NoError

InitPage ==
    /\ audioRendered = "loading"
    /\ sortedAudio = << >>
    /\ globalArchivesByYear = << >>
    /\ audioYears = << >>
    /\ observedYears = {}
    /\ videoRendered = "loading"
    /\ sortedVideo = << >>
    /\ videoByYear = << >>
    /\ videoYears = << >>
    /\ activeSection = "live-streams"
    /\ activeMarked = {"live-streams"}
    /\ fadeMarked = {}
    /\ navActive = updateActiveButton("live-streams")
    /\ fadeTimers = << >>
    /\ linkTimers = << >>
    /\ activeStream = "kick"
    /\ tabActive = {"kick"}
    /\ playerActive = {"kick"}
    /\ media = InitialMedia(sdk)
    /\ share = NoShare
    /\ calendar = NoCalendar
    /\ lastOp = Op("startInitialisation", "", FALSE, "", << >>)

\* the page is opened without ?audio= and ?video=, both SDKs have loaded
Init ==
    /\ InitConfig
    /\ fetches = 1
    /\ fetchCount = 1
    /\ urlAudio = ""
    /\ urlVideo = ""
    /\ bodyFlag = FALSE
    /\ sdk = [twitch |-> TRUE, mixcloud |-> TRUE, mixcloudThrows |-> "none"]
    /\ InitPage

\* the same, with either third-party SDK present or blocked
InitApi ==
    /\ InitConfig
    /\ fetches = 1
    /\ fetchCount = 1
    /\ urlAudio = ""
    /\ urlVideo = ""
    /\ bodyFlag = FALSE
    /\ sdk \in [twitch : BOOLEAN, mixcloud : BOOLEAN, mixcloudThrows : {"none"}]
    /\ InitPage

InitSort ==
    /\ InitConfig
    /\ fetches = 1
    /\ fetchCount = 1
    /\ urlAudio = ""
    /\ urlVideo = ""
    /\ bodyFlag = FALSE
    /\ sdk = [twitch |-> TRUE, mixcloud |-> TRUE, mixcloudThrows |-> "none"]
    /\ InitPage

\* the page is opened with ?audio=K, K the key of an archive item
InitLink ==
    /\ InitConfig
    /\ fetches = 1
    /\ fetchCount = 1
    /\ urlAudio \in LinkKeys
    /\ urlVideo = ""
    /\ bodyFlag = FALSE
    /\ sdk = [twitch |-> TRUE, mixcloud |-> TRUE, mixcloudThrows |-> "none"]
    /\ InitPage

\* the page is opened without ?audio=; the Mixcloud SDK is absent, works, or
\* is one whose calls throw
InitWidget ==
    /\ InitConfig
    /\ fetches = 1
    /\ fetchCount = 1
    /\ urlAudio = ""
    /\ urlVideo = ""
    /\ bodyFlag = FALSE
    /\ sdk \in {e \in [twitch : {TRUE}, mixcloud : BOOLEAN,
                        mixcloudThrows : MixcloudThrows] :
                    ~e.mixcloud => e.mixcloudThrows = "none"}
    /\ InitPage

\* the config module before its first call
InitConfigOnly ==
    /\ InitConfig
    /\ fetches = 0
    /\ fetchCount = 0
    /\ urlAudio = ""
    /\ urlVideo = ""
    /\ bodyFlag = FALSE
    /\ sdk = [twitch |-> TRUE, mixcloud |-> TRUE, mixcloudThrows |-> "none"]
    /\ InitPage

(***************************************************************************)
(* Next-state relations and specifications                                 *)
(***************************************************************************)
\* Spec: the section navigator with its fade and deep-link timers, over the
\* rendered archives
Next ==
    \/ \E r \in MainResponses : loadArchives(r)
    \/ \E r \in MainResponses : loadArchivesError(r)
    \/ \E sectionId \in Ids, animate \in BOOLEAN :
            /\ FadeRoom(sectionId, animate, MaxTimers)
            /\ switchSection(sectionId, animate)
    \/ FadeTimerFire
    \/ LiveTimerFire
    \/ VideoFrameTimerFire
    \/ \E n \in DOMAIN media.items : ItemClick(n)
    \/ \E i \in 1..Len(linkTimers) : LinkTimerFire(i)

Spec == Init /\ [][Next]_vars

\* SpecStreams: the live players under history navigation between the
\* sections and the stream tabs
NextStreams ==
    \/ \E r \in MainResponses : loadArchives(r)
    \/ \E sectionId \in Sections : switchSection(sectionId, FALSE)
    \/ \E stream \in Streams \cup {"chat"} : switchStream(stream)
    \/ LiveTimerFire
    \/ VideoFrameTimerFire

SpecStreams == InitApi /\ [][NextStreams]_vars

\* SpecApi: the embeds of the rendered archives and of the live section
\* under direct calls of the exported unload and reload functions
NextApi ==
    \/ \E r \in MainResponses : loadArchives(r)
    \/ LiveTimerFire
    \/ \E n \in DOMAIN media.items :
            \E i \in 1..Len(media.items[n].frames) : ItemFrameTimerFire(n, i)
    \/ VideoFrameTimerFire
    \/ \E n \in DOMAIN media.items : ItemObserver(n)
    \/ \E sectionId \in Sections : CallUnloadSectionMedia(sectionId)
    \/ \E sectionId \in Sections : CallReloadSectionMedia(sectionId)
    \/ \E stream \in Streams : CallUnloadStream(stream)
    \/ \E n \in DOMAIN media.items, pauseThrows \in BOOLEAN :
            CallUnloadArchiveItemEmbed(n, pauseThrows)

SpecApi == InitApi /\ [][NextApi]_vars

\* the pause() calls of an unloadObserver callback that throw
Throwing(year) ==
    SUBSET (YearItemIds(globalArchivesByYear, year) \cap media.widgets)

\* SpecLink: the deep link of loadAudioArchives and the viewport observers,
\* with no navigation and no click
NextLink ==
    \/ \E r \in LinkResponses : loadArchives(r)
    \/ \E i \in 1..Len(linkTimers) : LinkTimerFire(i)
    \/ \E year \in observedYears : YearLoadObserver(year)
    \/ \E year \in observedYears :
            \E throwing \in Throwing(year) : YearUnloadObserver(year, throwing)
    \/ \E n \in DOMAIN media.items : ItemObserver(n)

SpecLink == InitLink /\ [][NextLink]_vars

\* SpecHighlight: the same with history navigation between live-streams and
\* audio-archives and with clicks on the items
NextHighlight ==
    \/ \E r \in LinkResponses : loadArchives(r)
    \/ \E sectionId \in {"live-streams", "audio-archives"} :
            switchSection(sectionId, FALSE)
    \/ LiveTimerFire
    \/ \E n \in DOMAIN media.items : ItemClick(n)
    \/ \E i \in 1..Len(linkTimers) : LinkTimerFire(i)
    \/ \E year \in observedYears : YearLoadObserver(year)
    \/ \E year \in observedYears :
            \E throwing \in Throwing(year) : YearUnloadObserver(year, throwing)
    \/ \E n \in DOMAIN media.items : ItemObserver(n)

SpecHighlight == InitLink /\ [][NextHighlight]_vars

\* SpecWidget: the embeds of the archive items under the viewport observers
\* and under reloads of the audio-archives section, with a Mixcloud SDK that
\* is absent, works or throws
NextWidget ==
    \/ \E r \in LinkResponses : loadArchives(r)
    \/ \E year \in observedYears : YearLoadObserver(year)
    \/ \E year \in observedYears :
            \E throwing \in Throwing(year) : YearUnloadObserver(year, throwing)
    \/ \E n \in DOMAIN media.items : ItemObserver(n)
    \/ CallUnloadSectionMedia("audio-archives")
    \/ CallReloadSectionMedia("audio-archives")
    \/ \E n \in DOMAIN media.items :
            \E i \in 1..Len(media.items[n].frames) : ItemFrameTimerFire(n, i)

SpecWidget == InitWidget /\ [][NextWidget]_vars

\* SpecEager: the eager archive renderer and its viewport observer
NextEager ==
    \/ \E a \in SortArrays : EagerLoadAudioArchives(a)
    \/ \E i \in 1..Len(media.eager.years) : EagerObserver(i)
    \/ \E i \in 1..Len(media.eager.years) : EagerItemTimerFire(i)

SpecEager == InitSort /\ [][NextEager]_vars

\* SpecFade: clicks on the navigation buttons (animated switches) and the
\* 300 ms fade-out timers they set
NextFade ==
    \/ \E r \in MainResponses : loadArchives(r)
    \/ \E sectionId \in Sections :
            /\ FadeRoom(sectionId, TRUE, MaxFadeTimers)
            /\ switchSection(sectionId, TRUE)
    \/ FadeTimerFire
    \/ LiveTimerFire
    \/ VideoFrameTimerFire

SpecFade == Init /\ [][NextFade]_vars

\* the contents of data/events.json: no event, one, or two, the time of an
\* event being a string, absent, or a number
EventTimes == {"19:00", "", "(number)"}
EventArrays ==
    UNION {[1..len -> {CalendarEvent(d, t) : d \in {"2025-01-01", "2025-01-02"},
                                             t \in EventTimes}] : len \in 0..2}
EventsResponses ==
    {EventsResponse(net, ok, json, isArray, events) :
        net \in BOOLEAN, ok \in BOOLEAN, json \in BOOLEAN, isArray \in BOOLEAN,
        events \in EventArrays}

\* SpecEvents: initialisation up to the events calendar, over the answers to
\* the fetches of data/archives.json and data/events.json
NextEvents ==
    \/ \E r \in SortResponses \cup Responses({MainDoc}) : loadArchives(r)
    \/ \E r \in Responses({MainDoc}) : loadArchivesError(r)
    \/ \E r \in EventsResponses : EventsResolve(r)

SpecEvents == InitSort /\ [][NextEvents]_vars

\* SpecShare: the share buttons, in browsers with and without the Web Share
\* and Clipboard APIs
NextShare ==
    \/ \E fn \in ShareFns, env \in ShareEnvs, exec \in ExecOutcomes,
          answer \in PromptAnswers : ShareClick(fn, env, exec, answer)
    \/ \E outcome \in ShareOutcomes, exec \in ExecOutcomes,
          answer \in PromptAnswers : ShareSettles(outcome, exec, answer)
    \/ \E resolved \in BOOLEAN, exec \in ExecOutcomes,
          answer \in PromptAnswers : ClipboardSettles(resolved, exec, answer)
    \/ \E resolved \in BOOLEAN, answer \in PromptAnswers :
            ClipboardRetrySettles(resolved, answer)
    \/ HideTimerFire

SpecShare == InitSort /\ [][NextShare]_vars

\* SpecVk: the video player over playlists of VK embed URLs
NextVk ==
    \/ \E r \in VkResponses : loadArchives(r)
    \/ \E i \in 1..Len(sortedVideo) : PlaylistClick(i)

SpecVk == InitSort /\ [][NextVk]_vars

NextSort == \E r \in SortResponses : loadArchives(r)

SpecSort == InitSort /\ [][NextSort]_vars

Callers == {"loadConfig", "getAudioArchives", "getVideoArchives"}

NextConfig ==
    \/ \E caller \in Callers : loadConfig(caller)
    \/ \E r \in Responses(ConfigDocs) : FetchResolve(r)
    \/ resetConfig

SpecConfig == InitConfigOnly /\ [][NextConfig]_vars

(***************************************************************************)
(* Properties of the archive sort and the year grouping (SpecSort)         *)
(***************************************************************************)
\* the places of the year Map that hold the item with id n
PlacesOf(map, n) ==
    {<< i, j >> \in (1..Len(map)) \X (1..MaxLen + 1) :
        j <= Len(map[i].items) /\ map[i].items[j].n = n}

\* the year Map partitions the input array by calendar year
PartitionsByYear(input, map) ==
    /\ \A k \in 1..Len(input) : Cardinality(PlacesOf(map, input[k].n)) = 1
    /\ \A i \in 1..Len(map) :
          /\ map[i].items # << >>
          /\ \A j \in 1..Len(map[i].items) :
                /\ map[i].items[j].n \in 1..Len(input)
                /\ map[i].items[j] = input[map[i].items[j].n]
                /\ map[i].year =
                      IF map[i].items[j].created_time.has
                      THEN KnownYear(GetFullYear(map[i].items[j].created_time.t))
                      ELSE UnknownYear
    /\ \A i, j \in 1..Len(map) : i # j => map[i].year # map[j].year

\* the sections are the years of the Map, latest first, 'Unknown' last
DescendingUnknownLast(years, map) ==
    /\ Len(years) = Len(map)
    /\ {years[i] : i \in 1..Len(years)} = {map[i].year : i \in 1..Len(map)}
    /\ \A i, j \in 1..Len(years) :
          i < j => /\ years[i].known
                   /\ years[j].known => years[i].y > years[j].y

\* C9: grouping by year is a total, disjoint partition of the items, each in
\* the group keyed by the year of its created_time or 'Unknown' when it has
\* none, and the groups are rendered in descending year order with 'Unknown'
\* last, whatever the order of the input array.
C9_YearPartition ==
    /\ audioRendered = "years" =>
          /\ PartitionsByYear(configData.audio, globalArchivesByYear)
          /\ DescendingUnknownLast(audioYears, globalArchivesByYear)
    /\ videoRendered = "years" =>
          /\ PartitionsByYear(configData.video, videoByYear)
          /\ DescendingUnknownLast(videoYears, videoByYear)

\* an undated item first in the input, three year groups, and a Map whose
\* insertion order is not the rendered order
C9_Witness ==
    /\ audioRendered = "years"
    /\ ~configData.audio[1].created_time.has
    /\ Len(audioYears) = 3
    /\ ~audioYears[3].known
    /\ MapKeys(globalArchivesByYear) # audioYears

\* C10: in the date-sorted list the dated items are in descending
\* created_time order and every undated item comes after every dated item,
\* for all timestamps, those before the epoch included.
C10_DatedBeforeUndated ==
    audioRendered = "years" =>
        \A i, j \in 1..Len(sortedAudio) :
            i < j =>
                /\ (sortedAudio[i].created_time.has /\ sortedAudio[j].created_time.has)
                      => sortedAudio[i].created_time.t >= sortedAudio[j].created_time.t
                /\ ~(~sortedAudio[i].created_time.has /\ sortedAudio[j].created_time.has)

(***************************************************************************)
(* Properties of the configuration loader (SpecConfig)                     *)
(***************************************************************************)
\* C5: once a loadConfig has succeeded, every later loadConfig,
\* getAudioArchives or getVideoArchives call returns that same cached
\* document and issues no fetch, until resetConfig.
C5_CachedDocument ==
    [][(configData # Null /\ lastOp'.op # "resetConfig") =>
            /\ configData' = configData
            /\ fetchCount' = fetchCount
            /\ lastOp'.op \in Callers =>
                  lastOp'.calls = << Call("return", configData.rev) >>]_vars

\* C6: once a loadConfig has failed, no document is cached and every later
\* call rethrows that same cached error and issues no fetch, until
\* resetConfig.
C6_CachedError ==
    [][(configError # NoError /\ lastOp'.op # "resetConfig") =>
            /\ configData' = Null
            /\ configError' = configError
            /\ fetchCount' = fetchCount
            /\ lastOp'.op \in Callers =>
                  lastOp'.calls = << Call("throw", configError) >>]_vars

(***************************************************************************)
(* Properties of the section navigator (Spec)                              *)
(***************************************************************************)
\* C1: after any sequence of switchSection calls exactly one section
\* carries 'active', and the nav button whose data-section is that section
\* is the only active button.  Stated for the moments when no fade-out
\* timer is pending and the active id is a section.
C1_ExactlyOneActive ==
    (fadeTimers = << >> /\ activeSection \in Sections) =>
        /\ activeMarked \cap Sections = {activeSection}
        /\ navActive = {activeSection}

\* the step is a switchSection call with an id no element has, or with the
\* id of the active section other than an animated call on audio-archives
NoOpCall ==
    /\ lastOp'.op = "switchSection"
    /\ \/ lastOp'.arg \in UnknownIds
       \/ /\ lastOp'.arg = activeSection
          /\ ~(lastOp'.arg = "audio-archives" /\ lastOp'.animate)

\* C7: switchSection with an unknown id, or with the id of the active
\* section (the audio-archives reset aside), changes nothing: the active
\* section, the markers, the URL, the body flag, the embeds and the timers
\* stay as they are and neither unloadSectionMedia nor reloadSectionMedia
\* nor anything else is called.
C7_NoOp ==
    [][NoOpCall =>
            /\ UNCHANGED << activeSection, activeMarked, fadeMarked, navActive,
                            urlAudio, urlVideo, bodyFlag, fadeTimers,
                            linkTimers >>
            /\ UNCHANGED << media, archiveVars, streamVars, configVars >>
            /\ lastOp'.calls = << >>]_vars

\* a history navigation to audio-archives, already active, with an audio
\* key in the URL has returned without a call
C7_Witness ==
    /\ lastOp.op = "switchSection"
    /\ lastOp.arg = "audio-archives"
    /\ ~lastOp.animate
    /\ lastOp.calls = << >>
    /\ activeSection = "audio-archives"
    /\ urlAudio # ""

\* the step is an animated switchSection('audio-archives') while that
\* section is active
ResetCall ==
    /\ lastOp'.op = "switchSection"
    /\ lastOp'.arg = "audio-archives"
    /\ lastOp'.animate
    /\ activeSection = "audio-archives"

\* the frames of the page, without the highlight marks
Frames(m) ==
    [kick |-> m.kick, twitch |-> m.twitch, video |-> m.video,
     items |-> [n \in DOMAIN m.items |-> m.items[n].frames],
     liveTimers |-> m.liveTimers]

\* C8: an animated switchSection('audio-archives') while audio-archives is
\* active clears the 'audio' URL parameter, removes every highlight and
\* scrolls to the top; the active section and the markers stay and nothing
\* is unloaded or reloaded.
C8_Reset ==
    [][ResetCall =>
            /\ urlAudio' = ""
            /\ \A n \in DOMAIN media'.items : ~media'.items[n].highlighted
            /\ lastOp'.calls = << ScrollTop >>
            /\ UNCHANGED << activeSection, activeMarked, fadeMarked, navActive,
                            bodyFlag, urlVideo >>
            /\ Frames(media') = Frames(media)]_vars

\* the reset has run on the rendered archives
C8_Witness ==
    /\ lastOp.op = "switchSection"
    /\ lastOp.arg = "audio-archives"
    /\ lastOp.animate
    /\ lastOp.calls = << ScrollTop >>
    /\ activeSection = "audio-archives"
    /\ audioRendered = "years"
    /\ \E n \in DOMAIN media.items : media.items[n].inDom

(***************************************************************************)
(* Properties of the embeds (SpecApi, SpecStreams)                         *)
(***************************************************************************)
\* the data-original-src attributes of the iframes of the page
OriginalSrcs(m) ==
    [kick |-> [i \in 1..Len(m.kick) |-> m.kick[i].orig],
     twitch |-> [i \in 1..Len(m.twitch) |-> m.twitch[i].orig],
     video |-> [i \in 1..Len(m.video) |-> m.video[i].orig],
     items |-> [n \in DOMAIN m.items |->
                  [i \in 1..Len(m.items[n].frames) |-> m.items[n].frames[i].orig]]]

UnloadEntryPoints ==
    {"unloadSectionMedia", "unloadStream", "unloadArchiveItemEmbed"}

\* C2: every unload entry point is idempotent on the stored source: called
\* a second time on the same target, it leaves each data-original-src as
\* it was after the first call.
C2_SecondUnload ==
    [][(/\ lastOp.op \in UnloadEntryPoints
        /\ lastOp'.op = lastOp.op
        /\ lastOp'.arg = lastOp.arg)
            => OriginalSrcs(media') = OriginalSrcs(media)]_vars

\* the language parameters of a URL
LangParams(u) == {i \in 1..Len(u.q) : u.q[i].n = "lang"}

\* the iframe shows the source its embed was mounted with
Restored(f) ==
    /\ f.src = f.mount
    /\ f.src.base \in VkBases => Cardinality(LangParams(f.src)) = 1

\* C3: for an embed created by createIframeEmbed, initMixcloudWidget or
\* loadVideoInPlayer, once unloadSectionMedia and reloadSectionMedia of its
\* section have run and the delay timer has fired, the section shows an
\* iframe whose src is the source the embed was mounted with, a VK language
\* parameter being there exactly once.  Stated at the step of the timer:
\* the 100 ms timer for the Kick player that createIframeEmbed mounted
\* with KickUrl, the 10 ms timers for the archive iframes.
C3_RoundTrip ==
    [][/\ (media'.liveTimers < media.liveTimers /\ activeStream = "kick") =>
              /\ Len(media'.kick) = 1
              /\ media'.kick[1].src = KickUrl
       /\ (/\ Len(media'.video) = Len(media.video)
           /\ media.video # << >>
           /\ Head(media.video).pending # NoAttr
           /\ Head(media'.video).pending = NoAttr)
              => Restored(Head(media'.video))
       /\ \A n \in DOMAIN media.items \cap DOMAIN media'.items :
            \A i \in 1..Len(media.items[n].frames) :
                (/\ Len(media'.items[n].frames) = Len(media.items[n].frames)
                 /\ media.items[n].frames[i].pending # NoAttr
                 /\ media'.items[n].frames[i].pending = NoAttr)
                    => Restored(media'.items[n].frames[i])]_vars

\* the .archive-embed of the item holds a loaded embed with a playing iframe
LoadedLive(it) ==
    /\ it.embedLoaded
    /\ Len(it.frames) = 1
    /\ Live(it.frames[1])

\* the step is reloadSectionMedia('audio-archives') or loadArchiveItemEmbed
ReloadRequest ==
    \/ lastOp'.op = "reloadSectionMedia" /\ lastOp'.arg = "audio-archives"
    \/ lastOp'.op = "loadArchiveItemEmbed"

\* C4: a reload request (reloadSectionMedia, or loadArchiveItemEmbed while
\* embedLoaded is true) on an embed that is loaded and playing leaves its
\* container with exactly one iframe.
C4_OneIframe ==
    [][\A n \in DOMAIN media.items :
            (ReloadRequest /\ LoadedLive(media.items[n])) =>
                /\ n \in DOMAIN media'.items
                /\ Len(media'.items[n].frames) = 1]_vars

\* reloadSectionMedia('audio-archives') has run over a playing embed
C4_Witness ==
    /\ lastOp.op = "reloadSectionMedia"
    /\ lastOp.arg = "audio-archives"
    /\ \E n \in DOMAIN media.items : LoadedLive(media.items[n])

(***************************************************************************)
(* Properties of the stream tab controller (SpecStreams)                   *)
(***************************************************************************)
\* the step is a switchStream call whose target is the active stream or is
\* neither 'kick' nor 'twitch'
NoOpStreamCall ==
    /\ lastOp'.op = "switchStream"
    /\ \/ lastOp'.arg \notin Streams
       \/ lastOp'.arg = activeStream

\* C13: switchStream(target) with the active stream as target, or with a
\* target other than 'kick' and 'twitch', changes nothing in the document
\* (tabs, players, iframes, timers), calls neither unloadStream nor an
\* embed-creating function, and leaves activeStream as it was.
C13_NoOpStream ==
    [][NoOpStreamCall =>
            /\ UNCHANGED << activeStream, tabActive, playerActive, media >>
            /\ UNCHANGED << navVars, archiveVars, configVars >>
            /\ lastOp'.calls = << >>]_vars

\* switchStream('twitch') has returned early on the Twitch tab, which an
\* earlier call had switched to
C13_Witness ==
    /\ lastOp.op = "switchStream"
    /\ lastOp.arg = "twitch"
    /\ lastOp.calls = << >>
    /\ activeStream = "twitch"
    /\ tabActive = {"twitch"}

(***************************************************************************)
(* Properties of the archive renderer                                      *)
(***************************************************************************)
\* C14: loading an empty audio array leaves #audio-archives-container with
\* the one 'no items' placeholder, creates no year section and no item, and
\* registers no viewport observer.
C14_EmptyArchives ==
    (configData # Null /\ Len(configData.audio) = 0) =>
        /\ audioRendered = "no-items"
        /\ audioYears = << >>
        /\ observedYears = {}
        /\ media.items = << >>
        /\ media.yearLoaded = {}

\* loadArchives has rendered a document whose audio array is empty
C14_Witness ==
    /\ lastOp.op = "loadArchives"
    /\ configData # Null
    /\ Len(configData.audio) = 0
    /\ audioRendered = "no-items"

(***************************************************************************)
(* Properties of addVkLanguageParam (SpecVk)                               *)
(***************************************************************************)
\* the playlist item with this key
VideoWithKey(key) ==
    sortedVideo[CHOOSE i \in 1..Len(sortedVideo) : sortedVideo[i].key = key]

\* out is u with one lang parameter added at the end of its query
GainsOneLang(u, out) ==
    /\ out.base = u.base
    /\ Len(out.q) = Len(u.q) + 1
    /\ SubSeq(out.q, 1, Len(u.q)) = u.q
    /\ Cardinality(LangParams(out)) = 1

\* C15: addVkLanguageParam returns a VK embed URL that has a language
\* parameter unchanged, adds exactly one lang parameter to a VK embed URL
\* that has none, returns a URL that is not a VK embed URL unchanged, and
\* applied to its own result returns that result.  Stated for the source
\* loadVideoInPlayer gives the player's iframe for the clicked item.
C15_LanguageParam ==
    [][lastOp'.op = "loadVideoInPlayer" =>
            LET u == VideoWithKey(lastOp'.arg).embedUrl
                out == Head(media'.video).src
            IN /\ Len(media'.video) = 1
               /\ (u.base \in VkBases /\ LangParams(u) # {}) => out = u
               /\ (u.base \in VkBases /\ LangParams(u) = {}) => GainsOneLang(u, out)
               /\ u.base \notin VkBases => out = u
               /\ addVkLanguageParam(out) = out]_vars

(***************************************************************************)
(* Properties of the deep link and the viewport observers (SpecLink,       *)
(* SpecHighlight)                                                          *)
(***************************************************************************)
\* the item with this key is in the document and is highlighted
Resolved(audioKey) ==
    \E n \in DOMAIN media.items :
        /\ ItemOf(n).key = audioKey
        /\ media.items[n].inDom
        /\ media.items[n].highlighted

\* C11: when the page URL carries ?audio=K and K is the key of an item of
\* the loaded audio array, then once loadAudioArchives and all its delay
\* timers have run, whatever viewport observer callbacks ran in between,
\* the item with key K is in the document and is highlighted, also when its
\* year group is not the first one.
C11_DeepLinkResolved ==
    (/\ audioRendered = "years"
     /\ linkTimers = << >>
     /\ EntryWithKey(globalArchivesByYear, urlAudio) # 0)
        => Resolved(urlAudio)

\* the year group holds a highlighted item
HoldsHighlighted(m, year) ==
    \E n \in YearItemIds(globalArchivesByYear, year) :
        m.items[n].inDom /\ m.items[n].highlighted

\* C12: a not-intersecting callback of the unload observer on a year group
\* that holds a highlighted archive item leaves the group as it is: its item
\* nodes, its loaded flag and the embeds of its items.
C12_KeepsHighlightedYear ==
    [][(lastOp'.op = "unloadObserver" /\ HoldsHighlighted(media, lastOp'.arg)) =>
            /\ \A n \in YearItemIds(globalArchivesByYear, lastOp'.arg) :
                    media'.items[n] = media.items[n]
            /\ (lastOp'.arg \in media'.yearLoaded) = (lastOp'.arg \in media.yearLoaded)
            /\ media'.widgets = media.widgets]_vars

(***************************************************************************)
(* Properties of the share / copy chain (SpecShare)                        *)
(***************************************************************************)
\* the fixed order of the stages
StageRank(stage) ==
    CASE stage = "share" -> 1
      [] stage = "clipboard" -> 2
      [] stage = "textarea" -> 3
      [] stage = "prompt" -> 4

\* the browser lacks the API of the stage
StageAbsent(s, stage) ==
    \/ stage = "share" /\ ~s.env.share
    \/ stage = "clipboard" /\ ~s.env.clipboard

Attempted(s, stage) == \E i \in 1..Len(s.log) : s.log[i].stage = stage

\* C16: the stages of the share / copy chain are attempted in the fixed
\* order native share, clipboard API, hidden-textarea copy command, prompt;
\* a stage is attempted only when every stage before it is absent or was
\* attempted and failed; after an AbortError of the native share sheet no
\* later stage is attempted; the prompt is reached only after the clipboard
\* write and the textarea copy have failed.
C16_FallbackOrder ==
    /\ \A i, j \in 1..Len(share.log) :
          i < j => StageRank(share.log[i].stage) < StageRank(share.log[j].stage)
    /\ \A j \in 1..Len(share.log) :
          /\ \A i \in 1..(j - 1) : share.log[i].result = "fail"
          /\ \A stage \in {"share", "clipboard", "textarea"} :
                StageRank(stage) < StageRank(share.log[j].stage) =>
                    Attempted(share, stage) \/ StageAbsent(share, stage)
    /\ \A i \in 1..Len(share.log) :
          share.log[i].result = "abort" => i = Len(share.log)

\* C17: when a share has succeeded by any stage (the native share sheet
\* resolved, a clipboard write resolved, the textarea copy command returned
\* true, or the prompt was accepted), showShareConfirmation has been called.
C17_ConfirmationShown ==
    (share.pc = "done" /\ \E i \in 1..Len(share.log) : share.log[i].result = "ok")
        => share.confirmed

(***************************************************************************)
(* Properties of the delayed reloads (SpecStreams)                         *)
(***************************************************************************)
\* some iframe of the sequence has a source that loads a player
SomeLive(frames) == \E i \in 1..Len(frames) : Live(frames[i])

\* C18: when a reload has scheduled a delayed source assignment (the 10 ms
\* timer of an archive iframe, the 100 ms timer of the live streams) and a
\* navigation away has unloaded the section before the timer fires, then
\* after the timer has fired no iframe of that section, now inactive, has a
\* live source.  Stated at the step of the timer.
C18_NoResurrection ==
    [][/\ (/\ media'.liveTimers < media.liveTimers
           /\ activeSection # "live-streams")
              => ~SomeLive(media'.kick) /\ ~SomeLive(media'.twitch)
       /\ (/\ media.video # << >>
           /\ Len(media'.video) = Len(media.video)
           /\ Head(media.video).pending # NoAttr
           /\ Head(media'.video).pending = NoAttr
           /\ activeSection # "video-archives")
              => ~SomeLive(media'.video)]_vars

(***************************************************************************)
(* Properties of the per-item embed state (SpecLink, SpecApi)              *)
(***************************************************************************)
\* C19: in every reachable state an archive item element whose embedLoaded
\* flag is false has no iframe and no handle in mixcloudWidgets and shows
\* the placeholder, and one whose flag is true has exactly one iframe and,
\* when its platform is the one with a native widget (Mixcloud), exactly one
\* handle in mixcloudWidgets.
C19_ItemEmbedState ==
    \A n \in DOMAIN media.items :
        media.items[n].inDom =>
            IF media.items[n].embedLoaded
            THEN /\ Len(media.items[n].frames) = 1
                 /\ ItemOf(n).platform = "mixcloud" =>
                        n \in media.widgets /\ n \notin media.staleWidgets
            ELSE /\ media.items[n].frames = << >>
                 /\ n \notin media.widgets
                 /\ n \notin media.staleWidgets

\* C20: unloadArchiveItemEmbed on an item whose native widget is registered
\* removes the widget's handle from mixcloudWidgets and returns normally,
\* also when the widget's pause() throws.
C20_HandleReleased ==
    [][\A n \in DOMAIN media.items :
            (/\ lastOp'.op = "unloadArchiveItemEmbed"
             /\ ItemOf(n).key = lastOp'.arg
             /\ media.items[n].embedLoaded
             /\ n \in media.widgets)
                => /\ n \notin media'.widgets
                   /\ n \in media'.staleWidgets => n \in media.staleWidgets
                   /\ ~media'.items[n].embedLoaded]_vars

(***************************************************************************)
(* Degradation of initMixcloudWidget (SpecWidget)                          *)
(***************************************************************************)
\* the step loads the embed of Mixcloud item n
LoadsMixcloud(n) ==
    /\ lastOp'.op = "loadArchiveItemEmbed"
    /\ lastOp'.path = "load"
    /\ ItemOf(n).platform = "mixcloud"
    /\ ~media.items[n].embedLoaded
    /\ media'.items[n].embedLoaded

\* C21: when the Mixcloud SDK is unavailable or a call into it throws,
\* initMixcloudWidget lets no error out, returns null, leaves exactly one
\* plain iframe in the container and no handle of the item in
\* mixcloudWidgets
C21_SdkFailureDegrades ==
    [][\A n \in DOMAIN media.items :
            (LoadsMixcloud(n) /\ (~sdk.mixcloud \/ sdk.mixcloudThrows # "none"))
            => /\ ~initMixcloudWidget(ItemOf(n).url, sdk).propagates
               /\ initMixcloudWidget(ItemOf(n).url, sdk).returns = "null"
               /\ Len(media'.items[n].frames) = 1
               /\ ~media'.items[n].frames[1].mix
               /\ n \notin media'.widgets]_vars

(***************************************************************************)
(* Reloading a section with native widgets (SpecWidget)                    *)
(***************************************************************************)
\* the handle mixcloudWidgets holds for item n drives an iframe that is in
\* the item's .archive-embed
HandleBound(m, n) ==
    \E i \in 1..Len(m.items[n].frames) : m.items[n].frames[i].widget

\* C22: after reloadSectionMedia('audio-archives') every loaded Mixcloud
\* item that had a native widget has a handle in mixcloudWidgets that is
\* bound to the iframe now in its container
C22_WidgetsReconstructed ==
    [][lastOp'.op = "reloadSectionMedia"
        => \A n \in DOMAIN media.items :
                (media.items[n].embedLoaded /\ n \in media.widgets
                 /\ HandleBound(media, n))
                => (n \in media'.widgets /\ HandleBound(media', n))]_vars

(***************************************************************************)
(* The live-stream containers (SpecStreams)                                *)
(***************************************************************************)
\* C23: after any sequence of section switches and stream-tab switches
\* #kick-embed and #twitch-embed hold at most one iframe each
C23_OneLiveIframe ==
    /\ Len(media.kick) <= 1
    /\ Len(media.twitch) <= 1

\* the Twitch tab was switched to while #twitch-embed held the iframe that
\* leaving the live-streams section had blanked, and no iframe was added
C23_Witness ==
    /\ lastOp.op = "switchStream"
    /\ lastOp.arg = "twitch"
    /\ lastOp.path = "switch"
    /\ Len(media.twitch) = 1
    /\ media.twitch[1].src = EmptySrc

(***************************************************************************)
(* Section transitions (Spec)                                              *)
(***************************************************************************)
\* the step is a switchSection call that changes the section
RealTransition ==
    /\ lastOp'.op = "switchSection"
    /\ lastOp'.path \in {"switch", "deep-link"}

\* the calls of the embeds module and the assignment of activeSection in
\* the log of a handler, in order
MediaCalls(calls) ==
    SelectSeq(calls, LAMBDA c : c.f \in {"unloadSectionMedia",
                                         "reloadSectionMedia",
                                         "activeSection ="})

\* C24: a real section transition calls unloadSectionMedia once, for the
\* outgoing section, then reloadSectionMedia once, for the incoming one,
\* and assigns activeSection after both
C24_UnloadThenReload ==
    [][RealTransition
        => /\ MediaCalls(lastOp'.calls)
                = << Call("unloadSectionMedia", activeSection),
                     Call("reloadSectionMedia", lastOp'.arg),
                     Call("activeSection =", lastOp'.arg) >>
           /\ activeSection' = lastOp'.arg
           /\ LET expected == reloadSectionMedia(
                                unloadSectionMedia(media, activeSection),
                                lastOp'.arg)
              IN media' \in {expected, ClearHighlights(expected)}]_vars

\* a transition from a section whose unload changed an embed
C24_Witness ==
    /\ lastOp.op = "switchSection"
    /\ lastOp.path = "switch"
    /\ lastOp.arg = "events"
    /\ activeSection = "events"
    /\ media.video # << >>
    /\ media.video[1].src = AboutBlank

\* C25: after a real transition out of video-archives the URL has no
\* 'video' parameter; a real transition out of another section leaves the
\* parameter as it was
C25_VideoParamCleared ==
    [][RealTransition
        => IF activeSection = "video-archives"
           THEN urlVideo' = ""
           ELSE urlVideo' = urlVideo]_vars

\* the section was switched from video-archives, whose player held a video
\* with a key, and the URL has no 'video' parameter
C25_Witness ==
    /\ lastOp.op = "switchSection"
    /\ lastOp.path = "switch"
    /\ lastOp.calls[1] = Call("unloadSectionMedia", "video-archives")
    /\ videoRendered = "years"
    /\ FirstVideo(sortedVideo, "").key # ""
    /\ urlVideo = ""

\* C26: after a real section transition, the deep-link path included, body
\* has the class 'live-streams-active' exactly when the new active section
\* is live-streams
C26_ScrollFlag ==
    [][RealTransition => (bodyFlag' <=> activeSection' = "live-streams")]_vars

\* the deep-link path was taken from live-streams, where body had the class
C26_Witness ==
    /\ lastOp.op = "switchSection"
    /\ lastOp.path = "deep-link"
    /\ lastOp.calls[1] = Call("unloadSectionMedia", "live-streams")
    /\ activeSection = "audio-archives"
    /\ ~bodyFlag

(***************************************************************************)
(* Year groups under the viewport observers (SpecLink)                     *)
(***************************************************************************)
\* the .audio-year-content of the year holds one item node per item of the
\* year
Materialized(m, map, year) ==
    \A n \in YearItemIds(map, year) : m.items[n].inDom

\* the .audio-year-content of the year holds no item node and
\* mixcloudWidgets holds no handle of an item of the year
TornDown(m, map, year) ==
    \A n \in YearItemIds(map, year) :
        /\ ~m.items[n].inDom
        /\ n \notin m.widgets
        /\ n \notin m.staleWidgets

\* C27: after any sequence of load and unload callbacks of the viewport
\* observers, a year group whose loaded flag is true holds one placeholder
\* per item of its year, and a year group whose loaded flag is false holds
\* no item node and has no handle of its items in mixcloudWidgets; loading
\* a loaded year group changes nothing
C27_YearGroups ==
    /\ \A year \in observedYears :
            IF year \in media.yearLoaded
            THEN /\ Materialized(media, globalArchivesByYear, year)
                 /\ loadYearContent(media, globalArchivesByYear, year) = media
            ELSE TornDown(media, globalArchivesByYear, year)

(***************************************************************************)
(* The first year group (SpecSort)                                         *)
(***************************************************************************)
\* C28: loadAudioArchives on a non-empty array materializes the first year
\* group, the newest one, in the same call and materializes no other year
\* group
C28_FirstYearEager ==
    [][(lastOp'.op = "loadArchives" /\ audioRendered' = "years")
        => /\ media'.yearLoaded = {audioYears'[1]}
           /\ Materialized(media', globalArchivesByYear', audioYears'[1])
           /\ \A n \in DOMAIN media'.items :
                    media'.items[n].inDom
                    => n \in YearItemIds(globalArchivesByYear', audioYears'[1])
           /\ \A i \in 1..Len(sortedAudio') :
                    YearOf(sortedAudio'[i]).known
                    => /\ audioYears'[1].known
                       /\ audioYears'[1].y >= YearOf(sortedAudio'[i]).y]_vars

\* archives of two years were rendered: the group of the later year holds
\* its items, the group of the earlier year holds none
C28_Witness ==
    /\ lastOp.op = "loadArchives"
    /\ audioRendered = "years"
    /\ Len(audioYears) >= 2
    /\ audioYears[1].known
    /\ audioYears[2].known
    /\ media.yearLoaded = {audioYears[1]}
    /\ \E n \in YearItemIds(globalArchivesByYear, audioYears[2]) :
            ~media.items[n].inDom

(***************************************************************************)
(* The stream tabs (SpecStreams)                                           *)
(***************************************************************************)
\* C29: after any sequence of switchStream calls activeStream is 'kick' or
\* 'twitch', one stream tab and one player container have the class
\* 'active', and both are those of activeStream
C29_OneActiveStream ==
    /\ activeStream \in Streams
    /\ tabActive = {activeStream}
    /\ playerActive = {activeStream}

\* the Kick tab was switched back to after the Twitch tab
C29_Witness ==
    /\ lastOp.op = "switchStream"
    /\ lastOp.path = "switch"
    /\ lastOp.arg = "kick"
    /\ lastOp.calls = << Call("unloadStream", "twitch") >>
    /\ activeStream = "kick"
    /\ tabActive = {"kick"}
    /\ playerActive = {"kick"}

\* the iframes of the container of a stream
StreamFrames(m, stream) == IF stream = "kick" THEN m.kick ELSE m.twitch

\* the embed of the default channel of a stream
DefaultSrc(stream) == IF stream = "kick" THEN KickUrl ELSE TwitchUrl

\* the source the embed of a stream is expected to get back: the one
\* captured in data-original-src, or else that of the default channel
ExpectedSrc(m, stream) ==
    IF StreamFrames(m, stream) # << >>
       /\ ~Falsy(Head(StreamFrames(m, stream)).orig)
    THEN Head(StreamFrames(m, stream)).orig
    ELSE DefaultSrc(stream)

\* C30: a real stream switch unloads the outgoing stream, after which its
\* embed has no live source, and leaves the incoming stream's embed with a
\* live source: the captured one if one was captured, else the default
\* channel's
C30_StreamRestored ==
    [][(lastOp'.op = "switchStream" /\ lastOp'.path = "switch")
        => /\ lastOp'.calls = << Call("unloadStream", activeStream) >>
           /\ ~SomeLive(StreamFrames(media', activeStream))
           /\ \E i \in 1..Len(StreamFrames(media', lastOp'.arg)) :
                    /\ Live(StreamFrames(media', lastOp'.arg)[i])
                    /\ StreamFrames(media', lastOp'.arg)[i].src
                            = ExpectedSrc(media, lastOp'.arg)]_vars

(***************************************************************************)
(* The events calendar (SpecEvents)                                        *)
(***************************************************************************)
\* C31: when the fetch or the parse of the events document fails, the
\* calendar container shows the inline error message
C31_EventsErrorShown ==
    [][(lastOp'.op = "loadAndDisplayEvents" /\ lastOp'.path # "none")
        => calendar'.content = "error"]_vars

\* C39: when loading the archive configuration has failed, the events
\* calendar has still been loaded: its container no longer holds what the
\* page came with
C39_EventsAfterConfigError ==
    (lastOp.op = "loadArchives" /\ lastOp.path = "error")
    => calendar.content # "initial"

(***************************************************************************)
(* The navigator under overlapping timers (SpecFade, Spec)                 *)
(***************************************************************************)
\* C32: once every pending fade-out timer has fired, the section carrying
\* the active marker is exactly the one activeSection names
C32_ActiveMarkerSettles ==
    fadeTimers = << >> => activeMarked = {activeSection}

\* C33: a switchSection call whose id is that of an existing element that
\* is no section leaves the active section, its marker and the media state
\* unchanged
C33_OnlySections ==
    [][(lastOp'.op = "switchSection" /\ lastOp'.arg \in OtherElements)
        => UNCHANGED << activeSection, activeMarked, media >>]_vars

(***************************************************************************)
(* The highlighted marker (SpecHighlight, Spec)                            *)
(***************************************************************************)
\* the archive items that carry the highlighted marker
Highlighted(m) == {n \in DOMAIN m.items : m.items[n].highlighted}

\* C34: at most one archive item carries the highlighted marker
C34_OneHighlighted == Cardinality(Highlighted(media)) <= 1

\* C35: while the 'audio' parameter is cleared and no item is highlighted
\* (the state the tab's reset leaves, until the user selects an item), a
\* deep-link timer that fires highlights no item
C35_NoHighlightAfterReset ==
    [][(/\ urlAudio = ""
        /\ Highlighted(media) = {}
        /\ lastOp'.op = "event"
        /\ linkTimers' # linkTimers) => Highlighted(media') = {}]_vars

(***************************************************************************)
(* The configuration loader under overlapping calls (SpecConfig)           *)
(***************************************************************************)
\* C36: since the last reset at most one fetch has been issued, and the
\* loader never holds a cached document and a cached error together
C36_SingleFetch ==
    /\ fetchCount <= 1
    /\ ~(configData # Null /\ configError # NoError)

(***************************************************************************)
(* The embed of the inactive stream (SpecStreams)                          *)
(***************************************************************************)
\* C37: from initLiveStreams onward, the embed of a stream platform that is
\* not the active tab has no live source
C37_InactiveStreamBlank ==
    \A stream \in Streams :
        stream # activeStream => ~SomeLive(StreamFrames(media, stream))

(***************************************************************************)
(* The eager archive renderer (SpecEager)                                  *)
(***************************************************************************)
\* C38: in the eager renderer the items of each year group, the 'Unknown'
\* group included, are created at most once: a year section never has more
\* item elements, created or about to be, than its group has items
C38_GroupCreatedOnce ==
    \A i \in 1..Len(media.eager.years) :
        media.eager.timers[i] + media.eager.elements[i]
            <= Len(MapGet(media.eager.byYear, media.eager.years[i]))

=============================================================================
